---- MODULE Spec2Model ----
(***************************************************************************)
(* A model of the retrieval core of the executive-order RAG chatbot.       *)
(*                                                                         *)
(* src/src/vector_store.py, class LocalVectorStore: the two parallel       *)
(* lists documents / embeddings, add_documents, similarity_search, save    *)
(* and load, with the snapshot file the last two write and read; the same  *)
(* methods statement by statement, for two threads on one store.           *)
(* src/src/rag.py, class LocalRAG: retrieve, format_context,               *)
(* extract_source_documents, process_query, format_response_with_sources,  *)
(* with the embedding provider (src/src/embeddings.py) and the LLM client  *)
(* (src/src/llm.py) it calls.                                              *)
(* src/src/azure_search.py, class AzureSearchVectorStore:                  *)
(* similarity_search against the remote index.                             *)
(*                                                                         *)
(* A Python dict is a function from field names to values, so "field in    *)
(* doc" is f \in DOMAIN doc.  Python list indices start at 0, sequence     *)
(* indices here start at 1.                                                *)
(***************************************************************************)
EXTENDS Integers, Sequences, FiniteSets, TLC

\* ---------------------------------------------------------------- bounds
\* Most documents a store holds in the model.
MaxDocs == 2
\* Longest batch handed to one add_documents call.
MaxBatch == 2
\* Largest k handed to similarity_search (k ranges over 1..MaxK).
MaxK == 2
\* requests of one client per reset period, and hours on the clock
MaxRequests == 52
MaxChecks == 22
MaxClock == 36

\* ------------------------------------------------------------ field names
\* LocalVectorStore.__init__ defaults.
embeddings_field == "embedding"
content_field == "content"
metadata_field == "metadata"
score_field == "similarity_score"
\* get_document_by_id's default.
id_field == "id"

\* ---------------------------------------------------------- Python values
\* An embedding as the caller hands it over: a Python list, a tuple or a
\* numpy array of numbers.  np.array() accepts all three, json.dump does not.
PyList(v) == [kind |-> "list", v |-> v]
PyTuple(v) == [kind |-> "tuple", v |-> v]
NdArray(v) == [kind |-> "ndarray", v |-> v]

\* np.array(doc[self.embeddings_field]): the numeric vector, whatever the
\* container was.
NpArray(e) == e.v

\* A value that is not a dict (a JSON number met where a document is expected).
NonDict == [scalar |-> 5]
IsDict(x) == "scalar" \notin DOMAIN x

\* --------------------------------------------------------------- inputs
DocA == [id |-> "a", content |-> "alpha", embedding |-> PyList(<<1, 0>>),
         metadata |-> [title |-> "EO One"]]
DocB == [id |-> "b", content |-> "beta", embedding |-> PyList(<<0, 1>>),
         metadata |-> [eo_number |-> "14000"]]
\* a second document with id "a": empty content, a tuple embedding, no metadata
DocC == [id |-> "a", content |-> "", embedding |-> PyTuple(<<1, 1>>)]
\* a zero-norm embedding
DocD == [id |-> "d", content |-> "delta", embedding |-> PyList(<<0, 0>>),
         metadata |-> [source_filename |-> "d.txt"]]
\* a numpy embedding, and of another dimension than the rest
DocE == [id |-> "e", content |-> "epsilon", embedding |-> NdArray(<<1, 1, 1>>)]
DocNoContent == [id |-> "g", embedding |-> PyList(<<1, 0>>)]
DocNoEmbedding == [id |-> "h", content |-> "eta"]
\* a document that was given no id
DocNoId == [content |-> "nu", embedding |-> PyList(<<1, 0>>)]

InputPool == {DocA, DocB, DocC, DocD, DocE, DocNoContent, DocNoEmbedding}

QueryPool == {<<1, 0>>, <<1, 1>>, <<-1, 0>>, <<0, 0>>, <<1, 1, 1>>}

SeqsUpTo(S, n) == UNION {[1..m -> S] : m \in 0..n}

\* ------------------------------------------------------- float arithmetic
\* A float64 that the similarity computation can produce is kept as the exact
\* value num / sqrt(den2) together with ulp, the direction in which the
\* computed double lies off that exact value (-1 below, 0 equal, 1 above).
Float(num, den2, ulp) == [num |-> num, den2 |-> den2, ulp |-> ulp]

Sgn(n) == IF n > 0 THEN 1 ELSE IF n < 0 THEN -1 ELSE 0
\* x |-> sgn(x) * x^2 is increasing, so it orders num / sqrt(den2) exactly.
ExactKeyLT(a, b) == Sgn(a.num) * a.num * a.num * b.den2 < Sgn(b.num) * b.num * b.num * a.den2
ExactKeyEQ(a, b) == Sgn(a.num) * a.num * a.num * b.den2 = Sgn(b.num) * b.num * b.num * a.den2

FloatLT(a, b) == ExactKeyLT(a, b) \/ (ExactKeyEQ(a, b) /\ a.ulp < b.ulp)
FloatEQ(a, b) == ExactKeyEQ(a, b) /\ a.ulp = b.ulp
FloatGE(a, b) == ~FloatLT(a, b)
FloatGT(a, b) == FloatLT(b, a)

\* score_threshold: Optional[float].
None == [given |-> FALSE, v |-> Float(0, 1, 0)]
Some(f) == [given |-> TRUE, v |-> f]
\* 0.0, 0.4 (LocalRAG's default similarity_threshold, 2/5 = 2/sqrt(25)), 1.0
ThresholdPool == {None, Some(Float(0, 1, 0)), Some(Float(2, 25, 0)), Some(Float(1, 1, 0))}

RECURSIVE SumSq(_)
SumSq(v) == IF v = <<>> THEN 0 ELSE Head(v) * Head(v) + SumSq(Tail(v))

\* np.linalg.norm(v) squared; the norm is > 0 exactly when this is.
Norm2(v) == SumSq(v)

RECURSIVE DotProd(_, _)
DotProd(a, b) == IF a = <<>> THEN 0 ELSE Head(a) * Head(b) + DotProd(Tail(a), Tail(b))

\* The rounding of query_norm * doc_norm = fl(sqrt(a)) * fl(sqrt(b)) in IEEE-754
\* double arithmetic, as the direction in which the magnitude of
\* dot / (query_norm * doc_norm) leaves the exact cosine, for squared norms a, b
\* in 1..3 (vectors over {-1, 0, 1} of dimension at most 3), keyed by a * b:
\*   sqrt(2)*sqrt(2) = 2.0000000000000004, sqrt(3)*sqrt(3) = 2.9999999999999996.
MagErr(ab) ==
  CASE ab = 1 -> 0
    [] ab = 2 -> -1
    [] ab = 3 -> 1
    [] ab = 4 -> -1
    [] ab = 6 -> -1
    [] ab = 9 -> 1

\* np.dot(q, d) / (query_norm * doc_norm), both norms > 0, same length.
CosineSimilarity(q, d) ==
  LET dot == DotProd(q, d)
      ab == Norm2(q) * Norm2(d)
  IN Float(dot, ab, Sgn(dot) * MagErr(ab))

\* ------------------------------------------------------------------ state
VARIABLES
  documents,          \* self.documents: the stored dicts, in insertion order
  embeddings,         \* self.embeddings: the parallel list of numpy vectors
  persist_directory,  \* self.persist_directory: TRUE when one is configured
  disk,               \* the snapshot file that save writes and load reads
  last,               \* the latest call: its arguments, what it returned, and
                      \* the two lists as they were when it was entered
  rag,                \* the LocalRAG built over the store: top_k, similarity_threshold
  trace,              \* the calls the latest LocalRAG / adapter call made to its
                      \* collaborators, in the order it made them
  remote,             \* the Azure AI Search service as the adapter finds it
  search_thread,      \* a thread inside similarity_search: position and locals
  write_thread,       \* a thread inside add_documents or load: position and locals
  usage               \* the usage records of the chat front ends, and the clock

vars == <<documents, embeddings, persist_directory, disk, last, rag, trace, remote,
          search_thread, write_thread, usage>>

\* What the store's own methods never touch.
beyondStore == <<rag, trace, remote, search_thread, write_thread, usage>>

\* ------------------------------------------------------------ add_documents
\* The loop as it would be if the document were appended before the content
\* field is looked for.
RECURSIVE AddLoop_AppendsEarly(_, _, _, _)
AddLoop_AppendsEarly(docs, embs, added_count, batch) ==
  IF batch = <<>>
    THEN [documents |-> docs, embeddings |-> embs, added_count |-> added_count,
          raised |-> FALSE]
    ELSE LET doc == Head(batch) IN
      IF ~IsDict(doc)
        THEN [documents |-> docs, embeddings |-> embs, added_count |-> added_count,
              raised |-> TRUE]
      ELSE IF embeddings_field \notin DOMAIN doc
        THEN AddLoop_AppendsEarly(docs, embs, added_count, Tail(batch))
      ELSE IF content_field \notin DOMAIN doc
        THEN AddLoop_AppendsEarly(Append(docs, doc), embs, added_count, Tail(batch))
      ELSE AddLoop_AppendsEarly(Append(docs, doc),
                                Append(embs, NpArray(doc[embeddings_field])),
                                added_count + 1, Tail(batch))

\* The for loop of add_documents over the rest of the batch.  A batch entry
\* that is not a dict makes "field not in doc" raise TypeError, which leaves
\* the loop with what was appended so far.
RECURSIVE AddLoop(_, _, _, _)
AddLoop(docs, embs, added_count, batch) ==
  IF batch = <<>>
    THEN [documents |-> docs, embeddings |-> embs, added_count |-> added_count,
          raised |-> FALSE]
    ELSE LET doc == Head(batch) IN
      IF ~IsDict(doc)
        THEN [documents |-> docs, embeddings |-> embs, added_count |-> added_count,
              raised |-> TRUE]
      ELSE IF embeddings_field \notin DOMAIN doc
        THEN AddLoop(docs, embs, added_count, Tail(batch))
      ELSE IF content_field \notin DOMAIN doc
        THEN AddLoop(docs, embs, added_count, Tail(batch))
      ELSE AddLoop(Append(docs, doc), Append(embs, NpArray(doc[embeddings_field])),
                   added_count + 1, Tail(batch))

\* add_documents as it would be if a document without one of the two fields
\* ended the loop (break for continue).
RECURSIVE AddLoopBreaking(_, _, _, _)
AddLoopBreaking(docs, embs, added_count, batch) ==
  IF batch = <<>> \/ embeddings_field \notin DOMAIN Head(batch)
                 \/ content_field \notin DOMAIN Head(batch)
    THEN [documents |-> docs, embeddings |-> embs, added_count |-> added_count,
          raised |-> FALSE]
    ELSE AddLoopBreaking(Append(docs, Head(batch)),
                         Append(embs, NpArray(Head(batch)[embeddings_field])),
                         added_count + 1, Tail(batch))

add_documents_Breaking(docs, embs, batch) == AddLoopBreaking(docs, embs, 0, batch)

add_documents(docs, embs, batch) == AddLoop(docs, embs, 0, batch)

\* -------------------------------------------------------- similarity_search
\* The loop without the guard on the norms: a zero-norm pair is given the
\* score 0.
RECURSIVE SimilarityLoop_NoNormGuard(_, _, _, _)
SimilarityLoop_NoNormGuard(embs, query_embedding, i, similarities) ==
  IF i > Len(embs)
    THEN [raised |-> FALSE, similarities |-> similarities]
    ELSE LET doc_embedding == embs[i] IN
      IF Len(query_embedding) # Len(doc_embedding)
        THEN [raised |-> TRUE, similarities |-> similarities]
        ELSE SimilarityLoop_NoNormGuard(embs, query_embedding, i + 1,
               Append(similarities,
                      [idx |-> i,
                       score |-> IF Norm2(query_embedding) > 0 /\ Norm2(doc_embedding) > 0
                                   THEN CosineSimilarity(query_embedding, doc_embedding)
                                   ELSE Float(0, 1, 0)]))

\* The loop that fills similarities with (i, score) pairs.  np.dot raises
\* ValueError when the two vectors differ in length; a zero-norm query or
\* document is passed over before np.dot is reached.
RECURSIVE SimilarityLoop(_, _, _, _)
SimilarityLoop(embs, query_embedding, i, similarities) ==
  IF i > Len(embs)
    THEN [raised |-> FALSE, similarities |-> similarities]
    ELSE LET doc_embedding == embs[i] IN
      IF Norm2(query_embedding) > 0 /\ Norm2(doc_embedding) > 0
        THEN IF Len(query_embedding) # Len(doc_embedding)
               THEN [raised |-> TRUE, similarities |-> similarities]
               ELSE SimilarityLoop(embs, query_embedding, i + 1,
                      Append(similarities,
                             [idx |-> i,
                              score |-> CosineSimilarity(query_embedding, doc_embedding)]))
        ELSE SimilarityLoop(embs, query_embedding, i + 1, similarities)

\* x put into a list sorted by score, descending, behind the entries that score
\* strictly higher and before those that score the same or lower.
RECURSIVE InsertDescending(_, _)
InsertDescending(x, s) ==
  IF s = <<>> THEN <<x>>
  ELSE IF FloatGT(Head(s).score, x.score)
    THEN <<Head(s)>> \o InsertDescending(x, Tail(s))
    ELSE <<x>> \o s

\* The sort with reverse=True left out: ascending, stable.
RECURSIVE InsertAscending(_, _)
InsertAscending(x, s) ==
  IF s = <<>> THEN <<x>>
  ELSE IF FloatLT(Head(s).score, x.score)
    THEN <<Head(s)>> \o InsertAscending(x, Tail(s))
    ELSE <<x>> \o s

RECURSIVE SortAscending(_)
SortAscending(s) ==
  IF s = <<>> THEN <<>> ELSE InsertAscending(Head(s), SortAscending(Tail(s)))

\* A descending sort that puts an entry behind those of the same score.
RECURSIVE InsertBehindEqual(_, _)
InsertBehindEqual(x, s) ==
  IF s = <<>> THEN <<x>>
  ELSE IF FloatGE(Head(s).score, x.score)
    THEN <<Head(s)>> \o InsertBehindEqual(x, Tail(s))
    ELSE <<x>> \o s

RECURSIVE SortDescending_TiesReversed(_)
SortDescending_TiesReversed(s) ==
  IF s = <<>> THEN <<>>
  ELSE InsertBehindEqual(Head(s), SortDescending_TiesReversed(Tail(s)))

\* similarities.sort(key=lambda x: x[1], reverse=True): list.sort is stable, and
\* with reverse=True entries of equal key keep their original order.
RECURSIVE SortDescending(_)
SortDescending(s) ==
  IF s = <<>> THEN <<>> ELSE InsertDescending(Head(s), SortDescending(Tail(s)))

\* The filter with > for >=.
ApplyThreshold_Strict(similarities, score_threshold) ==
  IF score_threshold.given
    THEN SelectSeq(similarities, LAMBDA p : FloatGT(p.score, score_threshold.v))
    ELSE similarities

\* The filter left out.
ApplyThreshold_Ignored(similarities, score_threshold) == similarities

\* [(i, score) for i, score in similarities if score >= score_threshold]
ApplyThreshold(similarities, score_threshold) ==
  IF score_threshold.given
    THEN SelectSeq(similarities, LAMBDA p : FloatGE(p.score, score_threshold.v))
    ELSE similarities

\* The truncation left out.
TopK_All(similarities, k) == similarities

\* similarities[:k], k >= 0
TopK(similarities, k) ==
  SubSeq(similarities, 1, IF k < Len(similarities) THEN k ELSE Len(similarities))

\* doc = self.documents[idx].copy(); doc["similarity_score"] = score;
\* del doc[self.embeddings_field]
ResultDoc(doc, score) ==
  [f \in (DOMAIN doc \cup {score_field}) \ {embeddings_field} |->
     IF f = score_field THEN score ELSE doc[f]]

\* similarity_search as it would be if it sorted the store's own lists by
\* score (best first, unscored entries behind) instead of a list of indices.
similarity_search_SortsStore(docs, embs, query_embedding, k, score_threshold) ==
  IF embs = <<>>
    THEN [raised |-> FALSE, results |-> <<>>, documents |-> docs, embeddings |-> embs]
    ELSE
      LET loop == SimilarityLoop(embs, query_embedding, 1, <<>>)
          sorted == SortDescending(loop.similarities)
          top_k == TopK(ApplyThreshold(sorted, score_threshold), k)
          scored == {sorted[j].idx : j \in 1..Len(sorted)}
          order == [j \in 1..Len(sorted) |-> sorted[j].idx]
                     \o SelectSeq([i \in 1..Len(embs) |-> i], LAMBDA i : i \notin scored)
      IN IF loop.raised
           THEN [raised |-> TRUE, results |-> <<>>, documents |-> docs,
                 embeddings |-> embs]
           ELSE [raised |-> FALSE,
                 results |-> [j \in 1..Len(top_k) |->
                                ResultDoc(docs[top_k[j].idx], top_k[j].score)],
                 documents |-> [j \in 1..Len(order) |-> docs[order[j]]],
                 embeddings |-> [j \in 1..Len(order) |-> embs[order[j]]]]

\* similarity_search without the .copy(): the stored dicts of the results get
\* the score and lose the embedding.
similarity_search_InPlace(docs, embs, query_embedding, k, score_threshold) ==
  IF embs = <<>>
    THEN [raised |-> FALSE, results |-> <<>>, documents |-> docs, embeddings |-> embs]
    ELSE
      LET loop == SimilarityLoop(embs, query_embedding, 1, <<>>)
          top_k == TopK(ApplyThreshold(SortDescending(loop.similarities),
                                       score_threshold), k)
          hit(i) == {j \in 1..Len(top_k) : top_k[j].idx = i}
      IN IF loop.raised
           THEN [raised |-> TRUE, results |-> <<>>, documents |-> docs,
                 embeddings |-> embs]
           ELSE [raised |-> FALSE,
                 results |-> [j \in 1..Len(top_k) |->
                                ResultDoc(docs[top_k[j].idx], top_k[j].score)],
                 documents |-> [i \in 1..Len(docs) |->
                                  IF hit(i) = {} THEN docs[i]
                                  ELSE ResultDoc(docs[i], top_k[CHOOSE j \in hit(i) : TRUE].score)],
                 embeddings |-> embs]

\* What one call does: whether it raised, the list it returned, and the two
\* lists of the store after it (the call works on copies and leaves them alone).
similarity_search(docs, embs, query_embedding, k, score_threshold) ==
  IF embs = <<>>
    THEN [raised |-> FALSE, results |-> <<>>, documents |-> docs, embeddings |-> embs]
    ELSE
      LET loop == SimilarityLoop(embs, query_embedding, 1, <<>>)
          top_k == TopK(ApplyThreshold(SortDescending(loop.similarities),
                                       score_threshold), k)
      IN IF loop.raised
           THEN [raised |-> TRUE, results |-> <<>>, documents |-> docs,
                 embeddings |-> embs]
           ELSE [raised |-> FALSE,
                 results |-> [j \in 1..Len(top_k) |->
                                ResultDoc(docs[top_k[j].idx], top_k[j].score)],
                 documents |-> docs, embeddings |-> embs]

\* ------------------------------------------------------------ save / load
\* The snapshot file.  kind: "missing" (no such file), "text" (not valid
\* JSON), "array" (valid JSON whose top level is not an object), "object".
\* For an object, documents tells what is under the key "documents": "absent",
\* "number" (a value that is no list) or "list", with its entries in items;
\* count is metadata.count.
File(kind, docs, items) ==
  [kind |-> kind, documents |-> docs, items |-> items, count |-> Len(items)]
MissingFile == File("missing", "absent", <<>>)
NotJsonFile == File("text", "absent", <<>>)

\* json.dump of one stored dict: a list or a tuple becomes a JSON array, a
\* numpy array is not serializable (TypeError); strings and the metadata
\* mapping (string keys, scalar values) are written as they are.
JsonSerializable(doc) ==
  embeddings_field \in DOMAIN doc => doc[embeddings_field].kind \in {"list", "tuple"}

\* An encoder that writes the content, id and embedding fields only.
JsonEncode_NoMetadata(doc) ==
  [f \in DOMAIN doc \ {metadata_field} |->
     IF f = embeddings_field THEN [kind |-> "array", v |-> doc[f].v] ELSE doc[f]]

JsonEncode(doc) ==
  [f \in DOMAIN doc |->
     IF f = embeddings_field THEN [kind |-> "array", v |-> doc[f].v] ELSE doc[f]]

\* json.load of one entry of "documents": a JSON array becomes a Python list.
JsonDecode(entry) ==
  IF ~IsDict(entry) THEN entry
  ELSE [f \in DOMAIN entry |->
          IF f = embeddings_field THEN PyList(entry[f].v) ELSE entry[f]]

\* save(filename): FALSE without a persist directory; otherwise the file is
\* opened for writing (truncated) and json.dump streams into it, so a dict
\* that json cannot serialize leaves a prefix that is no JSON and save
\* answers FALSE.
save(docs, persist, file) ==
  IF ~persist
    THEN [ok |-> FALSE, disk |-> file]
  ELSE IF \E i \in 1..Len(docs) : ~JsonSerializable(docs[i])
    THEN [ok |-> FALSE, disk |-> NotJsonFile]
  ELSE [ok |-> TRUE,
        disk |-> File("object", "list", [i \in 1..Len(docs) |-> JsonEncode(docs[i])])]

\* load as it would be without "Clear existing data": it appends to the lists.
load_Merging(file, docs, embs) ==
  IF file.kind \in {"missing", "text", "array"}
    THEN [ok |-> FALSE, documents |-> docs, embeddings |-> embs]
  ELSE IF file.documents = "number"
    THEN [ok |-> FALSE, documents |-> docs, embeddings |-> embs]
  ELSE LET entries == IF file.documents = "absent" THEN <<>> ELSE file.items
           r == add_documents(docs, embs,
                              [i \in 1..Len(entries) |-> JsonDecode(entries[i])])
       IN [ok |-> ~r.raised, documents |-> r.documents, embeddings |-> r.embeddings]

\* load(file_path).  open() or json.load raise for a missing file or one that
\* is no JSON, data.get raises AttributeError when the top level is no object:
\* all before the lists are touched.  After that the lists are cleared and
\* add_documents runs on data.get("documents", []); what it raises (the value
\* is no list, an entry is no dict) is caught as well, with the lists as
\* add_documents left them.
load(file, docs, embs) ==
  IF file.kind \in {"missing", "text", "array"}
    THEN [ok |-> FALSE, documents |-> docs, embeddings |-> embs]
  ELSE IF file.documents = "number"
    THEN [ok |-> FALSE, documents |-> <<>>, embeddings |-> <<>>]
  ELSE LET entries == IF file.documents = "absent" THEN <<>> ELSE file.items
           r == add_documents(<<>>, <<>>,
                              [i \in 1..Len(entries) |-> JsonDecode(entries[i])])
       IN [ok |-> ~r.raised, documents |-> r.documents, embeddings |-> r.embeddings]

\* Files that something other than save put where load reads.
FilePool ==
  { MissingFile, NotJsonFile,
    File("array", "absent", <<>>),
    File("object", "absent", <<>>),
    File("object", "number", <<>>),
    File("object", "list", <<NonDict>>),
    File("object", "list", <<JsonEncode(DocA), NonDict>>),
    File("object", "list", <<JsonEncode(DocNoContent), JsonEncode(DocB)>>),
    File("object", "list", <<JsonEncode(DocB), JsonEncode(DocA)>>),
    File("object", "list", <<JsonEncode(DocA), JsonEncode(DocNoEmbedding)>>),
    File("object", "list", <<JsonEncode(DocA), JsonEncode(DocE)>>) }

\* ------------------------------------------------------- get_document_by_id
\* Optional[Dict]: None, or the stored dict itself.
NoDocument == [given |-> FALSE, v |-> [f \in {} |-> f]]
SomeDocument(doc) == [given |-> TRUE, v |-> doc]

\* The loop from the back of the list: the last document of that id.
RECURSIVE get_document_by_id_Last(_, _)
get_document_by_id_Last(docs, doc_id) ==
  IF docs = <<>> THEN NoDocument
  ELSE LET doc == docs[Len(docs)] IN
    IF id_field \in DOMAIN doc /\ doc[id_field] = doc_id
      THEN SomeDocument(doc)
      ELSE get_document_by_id_Last(SubSeq(docs, 1, Len(docs) - 1), doc_id)

\* for doc in self.documents: return the first whose id_field is doc_id.
RECURSIVE get_document_by_id(_, _)
get_document_by_id(docs, doc_id) ==
  IF docs = <<>> THEN NoDocument
  ELSE LET doc == Head(docs) IN
    IF id_field \in DOMAIN doc /\ doc[id_field] = doc_id
      THEN SomeDocument(doc)
      ELSE get_document_by_id(Tail(docs), doc_id)

\* ------------------------------------------------------------------- text
\* A Python str is kept as the sequence of the pieces it is put together
\* from (literals of the source, field values, numbers); + and f-strings
\* are \o.
EmptyDict == [f \in {} |-> f]

\* str(n) of an int, as an f-string puts it in.
Str(n) == ToString(n)

\* d.get(field, default) on a dict.
Get(d, field, default) == IF field \in DOMAIN d THEN d[field] ELSE default

\* sep.join(parts)
RECURSIVE Join(_, _)
Join(sep, parts) ==
  IF parts = <<>> THEN <<>>
  ELSE IF Len(parts) = 1 THEN parts[1]
  ELSE parts[1] \o sep \o Join(sep, Tail(parts))

\* ------------------------------------------------- LocalRAG.format_context
ContextDelimiter == <<"\n----\n">>

\* MetadataStr with the test for the title behind the one for the eo_number.
MetadataStr_EoFirst(metadata) ==
  IF DOMAIN metadata = {} THEN <<>>
  ELSE LET source == Get(metadata, "source_filename", "Unknown source") IN
    IF "eo_number" \in DOMAIN metadata
      THEN <<"Executive Order: ", metadata.eo_number, "\nSource: ", source>>
    ELSE IF "title" \in DOMAIN metadata
      THEN <<"Title: ", metadata.title, "\nSource: ", source>>
    ELSE <<"Source: ", source>>

\* metadata_str of one document: empty unless the metadata is truthy.
MetadataStr(metadata) ==
  IF DOMAIN metadata = {} THEN <<>>
  ELSE LET source == Get(metadata, "source_filename", "Unknown source") IN
    IF "title" \in DOMAIN metadata
      THEN <<"Title: ", metadata.title, "\nSource: ", source>>
    ELSE IF "eo_number" \in DOMAIN metadata
      THEN <<"Executive Order: ", metadata.eo_number, "\nSource: ", source>>
    ELSE <<"Source: ", source>>

\* f"[Document {i+1}]:\n" f"{metadata_str}\n\n" f"{content}\n", number = i + 1
ContextPart(number, doc) ==
  <<"[Document ", Str(number), "]:\n">>
    \o MetadataStr(Get(doc, metadata_field, EmptyDict))
    \o <<"\n\n">> \o <<Get(doc, content_field, "")>> \o <<"\n">>

\* format_context with the parts joined last document first.
format_context_Reversed(docs) ==
  Join(ContextDelimiter,
       [i \in 1..Len(docs) |-> ContextPart(Len(docs) + 1 - i, docs[Len(docs) + 1 - i])])

format_context(docs) ==
  Join(ContextDelimiter, [i \in 1..Len(docs) |-> ContextPart(i, docs[i])])

\* ---------------------------------------- LocalRAG.extract_source_documents
SourceInfo(doc) ==
  LET metadata == Get(doc, metadata_field, EmptyDict)
      keys == {"title"}
                \cup (IF "eo_number" \in DOMAIN metadata THEN {"eo_number"} ELSE {})
                \cup (IF "page_number" \in DOMAIN metadata THEN {"page"} ELSE {})
                \cup (IF "id" \in DOMAIN doc THEN {"chunk_id"} ELSE {})
  IN [f \in keys |->
        CASE f = "title" ->
               Get(metadata, "title", Get(metadata, "source_filename", "Unknown Source"))
          [] f = "eo_number" -> metadata.eo_number
          [] f = "page" -> metadata.page_number
          [] f = "chunk_id" -> doc.id]

extract_source_documents(docs) == [i \in 1..Len(docs) |-> SourceInfo(docs[i])]

\* ------------------------------------ LocalRAG.format_response_with_sources
\* One numbered line of the "Sources:" section.
SourceLine(i, doc) ==
  <<Str(i), ". ">>
    \o (IF "eo_number" \in DOMAIN doc THEN <<"Executive Order ", doc.eo_number>>
        ELSE IF "title" \in DOMAIN doc THEN <<doc.title>>
        ELSE <<"Unknown Source">>)
    \o (IF "page" \in DOMAIN doc THEN <<", page ", Str(doc.page)>> ELSE <<>>)

\* enumerate(source_documents) without the start value 1.
format_response_with_sources_FromZero(response, source_documents) ==
  IF source_documents = <<>> THEN response
  ELSE response \o <<"\n\nSources:\n">>
         \o Join(<<"\n">>, [i \in 1..Len(source_documents) |->
                              SourceLine(i - 1, source_documents[i])])

format_response_with_sources(response, source_documents) ==
  IF source_documents = <<>> THEN response
  ELSE response \o <<"\n\nSources:\n">>
         \o Join(<<"\n">>, [i \in 1..Len(source_documents) |->
                              SourceLine(i, source_documents[i])])

\* ------------------------------------- EmbeddingsGenerator.generate_embeddings
\* The questions asked and the vector the sentence-transformer model gives
\* each of them.
QueryTexts == {"about alpha", "about both", "about neither"}
Encode(text) ==
  CASE text = "about alpha" -> <<1, 0>>
    [] text = "about both" -> <<1, 1>>
    [] text = "about neither" -> <<-1, 0>>

\* generate_embeddings(texts): [] for no texts; otherwise one vector per text,
\* or the model's exception, logged and raised again.
generate_embeddings(texts, model_ok) ==
  IF texts = <<>> THEN [raised |-> FALSE, embeddings |-> <<>>]
  ELSE IF ~model_ok THEN [raised |-> TRUE, embeddings |-> <<>>]
  ELSE [raised |-> FALSE, embeddings |-> [i \in 1..Len(texts) |-> Encode(texts[i])]]

\* ------------------------------------------------ AzureLLM.generate_response
\* What the HTTP endpoint does with the request: answers 200 with a chat
\* completion, answers 200 with a body without "choices", answers with an
\* error status, or does not answer within the timeout.
AnswerPool == {<<"It establishes a council.">>, <<"See ", "EO One", ".">>}
ReplyPool ==
  {[kind |-> "ok", content |-> a] : a \in AnswerPool}
    \cup {[kind |-> k, content |-> <<>>] : k \in {"no_choices", "http_error", "timeout"}}

\* generate_response: the message content of a good reply; RuntimeError for a
\* requests exception (raise_for_status, timeout); KeyError, not caught
\* there, for a body without "choices".
generate_response(query, context, chat_history, reply) ==
  CASE reply.kind = "ok" -> [raised |-> FALSE, error |-> "none", response |-> reply.content]
    [] reply.kind = "no_choices" -> [raised |-> TRUE, error |-> "KeyError", response |-> <<>>]
    [] OTHER -> [raised |-> TRUE, error |-> "RuntimeError", response |-> <<>>]

\* ------------------------------------------------------- LocalRAG.retrieve
\* top_k: Optional[int]
NoTopK == [given |-> FALSE, v |-> 0]
TopKArg(n) == [given |-> TRUE, v |-> n]
\* "top_k or self.top_k": the argument unless it is None or 0.
OrDefault(top_k, default) == IF top_k.given /\ top_k.v # 0 THEN top_k.v ELSE default

EmbeddingCall(texts) == [callee |-> "generate_embeddings", texts |-> texts]
SearchCall(query_embedding, k, score_threshold) ==
  [callee |-> "similarity_search", query_embedding |-> query_embedding, k |-> k,
   score_threshold |-> score_threshold]
LlmCall(query, context, chat_history) ==
  [callee |-> "generate_response", query |-> query, context |-> context,
   chat_history |-> chat_history]

\* retrieve that always searches with the configured top_k.
retrieve_IgnoresOverride(self, docs, embs, query, top_k, model_ok) ==
  LET e == generate_embeddings(<<query>>, model_ok) IN
    IF e.raised
      THEN [raised |-> TRUE, results |-> <<>>, trace |-> <<EmbeddingCall(<<query>>)>>]
      ELSE LET r == similarity_search(docs, embs, e.embeddings[1], self.top_k,
                                      self.similarity_threshold)
           IN [raised |-> r.raised, results |-> r.results,
               trace |-> <<EmbeddingCall(<<query>>),
                           SearchCall(e.embeddings[1], self.top_k,
                                      self.similarity_threshold)>>]

\* retrieve(query, top_k) on the LocalRAG self whose store holds docs, embs:
\* what it returns or that it raised, and the calls it made.
retrieve(self, docs, embs, query, top_k, model_ok) ==
  LET e == generate_embeddings(<<query>>, model_ok) IN
    IF e.raised
      THEN [raised |-> TRUE, results |-> <<>>, trace |-> <<EmbeddingCall(<<query>>)>>]
      ELSE LET k == OrDefault(top_k, self.top_k)
               r == similarity_search(docs, embs, e.embeddings[1], k,
                                      self.similarity_threshold)
           IN [raised |-> r.raised, results |-> r.results,
               trace |-> <<EmbeddingCall(<<query>>),
                           SearchCall(e.embeddings[1], k, self.similarity_threshold)>>]

\* -------------------------------------------------- LocalRAG.process_query
NoRelevantInformation ==
  <<"I couldn't find any relevant information to answer your question.">>

\* The outcome of a process_query call: raised, or the pair (response,
\* sources) it returned, with the collaborator calls made on the way.
Raised(calls) == [raised |-> TRUE, response |-> <<>>, sources |-> <<>>, trace |-> calls]
Pair(response, sources, calls) ==
  [raised |-> FALSE, response |-> response, sources |-> sources, trace |-> calls]

\* process_query as it would be with the test for an empty retrieval behind
\* the LLM call.
process_query_AsksFirst(self, docs, embs, query, chat_history, model_ok, reply) ==
  LET r == retrieve(self, docs, embs, query, NoTopK, model_ok) IN
    IF r.raised THEN Raised(r.trace)
    ELSE LET context == format_context(r.results)
             g == generate_response(query, <<context>>, chat_history, reply)
             calls == r.trace \o <<LlmCall(query, <<context>>, chat_history)>>
         IN IF g.raised THEN Raised(calls)
            ELSE IF r.results = <<>> THEN Pair(NoRelevantInformation, <<>>, calls)
            ELSE Pair(g.response, extract_source_documents(r.results), calls)

\* process_query as it would be with the LLM call in a try block that
\* answers with the no-information message.
process_query_Fallback(self, docs, embs, query, chat_history, model_ok, reply) ==
  LET r == retrieve(self, docs, embs, query, NoTopK, model_ok) IN
    IF r.raised THEN Raised(r.trace)
    ELSE IF r.results = <<>> THEN Pair(NoRelevantInformation, <<>>, r.trace)
    ELSE LET context == format_context(r.results)
             g == generate_response(query, <<context>>, chat_history, reply)
             calls == r.trace \o <<LlmCall(query, <<context>>, chat_history)>>
         IN IF g.raised
              THEN Pair(NoRelevantInformation, extract_source_documents(r.results), calls)
              ELSE Pair(g.response, extract_source_documents(r.results), calls)

\* process_query as it would be if it listed only the sources whose title
\* the answer mentions.
process_query_CitedOnly(self, docs, embs, query, chat_history, model_ok, reply) ==
  LET r == retrieve(self, docs, embs, query, NoTopK, model_ok) IN
    IF r.raised THEN Raised(r.trace)
    ELSE IF r.results = <<>> THEN Pair(NoRelevantInformation, <<>>, r.trace)
    ELSE LET context == format_context(r.results)
             g == generate_response(query, <<context>>, chat_history, reply)
             calls == r.trace \o <<LlmCall(query, <<context>>, chat_history)>>
             mentioned(s) == \E j \in 1..Len(g.response) : g.response[j] = s.title
         IN IF g.raised THEN Raised(calls)
            ELSE Pair(g.response,
                      SelectSeq(extract_source_documents(r.results), mentioned), calls)

\* process_query(query, chat_history): retrieve; the fixed message and no
\* sources when nothing was retrieved; otherwise the context goes to the LLM
\* client as a one-element list, whatever that raises goes on to the caller,
\* and the sources are taken from the retrieved documents.
process_query(self, docs, embs, query, chat_history, model_ok, reply) ==
  LET r == retrieve(self, docs, embs, query, NoTopK, model_ok) IN
    IF r.raised THEN Raised(r.trace)
    ELSE IF r.results = <<>> THEN Pair(NoRelevantInformation, <<>>, r.trace)
    ELSE LET context == format_context(r.results)
             g == generate_response(query, <<context>>, chat_history, reply)
             calls == r.trace \o <<LlmCall(query, <<context>>, chat_history)>>
         IN IF g.raised THEN Raised(calls)
            ELSE Pair(g.response, extract_source_documents(r.results), calls)

\* ------------------------------------------------- AzureSearchVectorStore
\* AzureSearchVectorStore.__init__ defaults.
vector_field_name == "embedding"

\* json.dumps(metadata) of a dict, and json.loads of such a string.
JsonDumps(metadata) == [json |-> "object", value |-> metadata]
JsonLoads(text) == text.value

\* The search document add_documents uploads for a document with content:
\* the metadata as a JSON string, and chunk_id, source_filename, title and
\* eo_number beside it, '' for what the metadata does not have.
SearchDocument(doc) ==
  LET metadata == Get(doc, metadata_field, EmptyDict) IN
    [id |-> doc.id, content |-> doc[content_field], metadata |-> JsonDumps(metadata),
     chunk_id |-> Get(metadata, "chunk_id", doc.id),
     source_filename |-> Get(metadata, "source_filename", ""),
     title |-> Get(metadata, "title", ""),
     eo_number |-> Get(metadata, "eo_number", "")]

\* A search document as the service hands it back, with its "@search.score".
Hit(search_doc, score) ==
  [f \in DOMAIN search_doc \cup {"@search.score"} |->
     IF f = "@search.score" THEN score ELSE search_doc[f]]

HitPool ==
  { Hit(SearchDocument(DocA), Float(1, 1, 0)),
    Hit(SearchDocument(DocB), Float(1, 2, -1)),
    Hit(SearchDocument(DocC), Float(0, 1, 0)),
    Hit(SearchDocument(DocD), Float(2, 25, 0)) }

\* The fields of the index as get_index lists them; dims tells whether the
\* field object has the attribute vector_search_dimensions.
IndexField(name, dims) == [name |-> name, vector_search_dimensions |-> dims]
PlainIndex == <<IndexField("id", FALSE), IndexField("content", FALSE),
                IndexField("metadata", FALSE)>>
VectorIndex == PlainIndex \o <<IndexField(vector_field_name, TRUE)>>

\* The service as one query finds it.  inspect: "fails" when get_index
\* raises, otherwise "fields" with the field list; search: whether
\* search_client.search raises; matches: what it finds, best first; items:
\* whether the results are objects with attributes or plain dicts.
Remote(inspect, fields, search, matches, items) ==
  [inspect |-> inspect, fields |-> fields, search |-> search, matches |-> matches,
   items |-> items]
NoRemote == Remote("fails", <<>>, "fails", <<>>, "object")

\* has_vector_search after the inner try block (lines 290-299).
HasVectorSearch(service) ==
  /\ service.inspect = "fields"
  /\ \E i \in 1..Len(service.fields) :
       /\ service.fields[i].name = vector_field_name
       /\ service.fields[i].vector_search_dimensions

\* Optional[str] arguments.
NoFilter == [given |-> FALSE, v |-> ""]
Filter(text) == [given |-> TRUE, v |-> text]

\* filter_expression (lines 313-321): None, or the parts joined by " and ".
FilterExpression(content_filter, metadata_filter) ==
  IF ~content_filter.given /\ ~metadata_filter.given THEN <<>>
  ELSE Join(<<" and ">>,
            (IF content_filter.given
               THEN <<<<"search.ismatch('", content_filter.v, "', '", content_field, "')">>>>
               ELSE <<>>)
            \o (IF metadata_filter.given THEN <<<<metadata_filter.v>>>> ELSE <<>>))

InspectCall == [callee |-> "get_index"]
VectorSearchCall(query_embedding, k, filter) ==
  [callee |-> "search", search_text |-> "None",
   vector_queries |-> <<[vector |-> query_embedding, fields |-> vector_field_name,
                         k |-> k]>>,
   filter |-> filter, top |-> k]
KeywordSearchCall(k) ==
  [callee |-> "search", search_text |-> "executive orders", vector_queries |-> <<>>,
   filter |-> <<>>, top |-> k]

\* One turn of the result loop (lines 345-376) on a result with attributes.
ProcessHit(hit) ==
  LET parsed == IF "metadata" \in DOMAIN hit /\ hit.metadata.json = "object"
                  THEN JsonLoads(hit.metadata) ELSE EmptyDict
      top_level == {f \in {"source_filename", "title", "eo_number"} :
                      f \in DOMAIN hit /\ hit[f] # ""}
      metadata == IF DOMAIN parsed # {} THEN parsed ELSE [f \in top_level |-> hit[f]]
  IN [id |-> hit.id,
      content |-> Get(hit, content_field, ""),
      metadata |-> metadata,
      similarity_score |-> Get(hit, "@search.score", Float(0, 1, 0))]

\* What similarity_search returns and the calls it made on the two clients.
AzureOutcome(results, calls) == [raised |-> FALSE, results |-> results, trace |-> calls]

\* similarity_search as it would be without the inner try block: a failed
\* get_index lands in the outer handler.
azure_similarity_search_InspectFatal(service, query_embedding, k, content_filter, metadata_filter) ==
  IF service.inspect = "fails" THEN AzureOutcome(<<>>, <<InspectCall>>)
  ELSE
    LET vector == HasVectorSearch(service)
        call == IF vector
                  THEN VectorSearchCall(query_embedding, k,
                                        FilterExpression(content_filter, metadata_filter))
                  ELSE KeywordSearchCall(k)
        hits == TopK(service.matches, k)
    IN IF service.search = "fails" THEN AzureOutcome(<<>>, <<InspectCall, call>>)
       ELSE IF service.items = "dict" /\ hits # <<>>
         THEN AzureOutcome(<<>>, <<InspectCall, call>>)
       ELSE AzureOutcome([i \in 1..Len(hits) |-> ProcessHit(hits[i])],
                         <<InspectCall, call>>)

\* similarity_search as it would be if the keyword mode handed on what the
\* service returned.
azure_similarity_search_RawKeyword(service, query_embedding, k, content_filter, metadata_filter) ==
  LET vector == HasVectorSearch(service)
      call == IF vector
                THEN VectorSearchCall(query_embedding, k,
                                      FilterExpression(content_filter, metadata_filter))
                ELSE KeywordSearchCall(k)
      hits == TopK(service.matches, k)
  IN IF service.search = "fails" THEN AzureOutcome(<<>>, <<InspectCall, call>>)
     ELSE IF ~vector THEN AzureOutcome(hits, <<InspectCall, call>>)
     ELSE IF service.items = "dict" /\ hits # <<>>
       THEN AzureOutcome(<<>>, <<InspectCall, call>>)
     ELSE AzureOutcome([i \in 1..Len(hits) |-> ProcessHit(hits[i])],
                       <<InspectCall, call>>)

\* similarity_search(query_embedding, k, content_filter, metadata_filter).
\* Whatever the search or the result loop raises is caught by the outer
\* handler, which returns []: a result that is a dict has no attribute id.
azure_similarity_search(service, query_embedding, k, content_filter, metadata_filter) ==
  LET vector == HasVectorSearch(service)
      call == IF vector
                THEN VectorSearchCall(query_embedding, k,
                                      FilterExpression(content_filter, metadata_filter))
                ELSE KeywordSearchCall(k)
      hits == TopK(service.matches, k)
  IN IF service.search = "fails" THEN AzureOutcome(<<>>, <<InspectCall, call>>)
     ELSE IF service.items = "dict" /\ hits # <<>>
       THEN AzureOutcome(<<>>, <<InspectCall, call>>)
     ELSE AzureOutcome([i \in 1..Len(hits) |-> ProcessHit(hits[i])],
                       <<InspectCall, call>>)

\* ---------------------------------------------------- AzureRAG.retrieve
\* retrieve(query, top_k, content_filter, metadata_filter) of an AzureRAG
\* with the configured top_k self_top_k: the embedding of [query], then the
\* adapter's similarity_search, whose return value is handed on.
azure_retrieve(self_top_k, service, query, top_k, content_filter, metadata_filter, model_ok) ==
  LET e == generate_embeddings(<<query>>, model_ok) IN
    IF e.raised
      THEN [raised |-> TRUE, results |-> <<>>, trace |-> <<EmbeddingCall(<<query>>)>>]
      ELSE LET r == azure_similarity_search(service, e.embeddings[1],
                                            OrDefault(top_k, self_top_k),
                                            content_filter, metadata_filter)
           IN [raised |-> r.raised, results |-> r.results,
               trace |-> <<EmbeddingCall(<<query>>)>> \o r.trace]

\* ------------------------------------------------ SimpleAzureRAG.retrieve
SimpleSearchCall(query, filter, top) ==
  [callee |-> "search", search_text |-> query, vector_queries |-> <<>>,
   filter |-> filter, top |-> top]

\* One turn of the result loop of SimpleAzureRAG.retrieve (lines 80-116),
\* which reads a dict by key and any other result by attribute: the parsed
\* metadata, overwritten by the non-empty top-level fields.
ProcessSimpleHit(hit) ==
  LET parsed == IF "metadata" \in DOMAIN hit /\ hit.metadata.json = "object"
                  THEN JsonLoads(hit.metadata) ELSE EmptyDict
      top_level == {f \in {"source_filename", "title", "eo_number"} :
                      f \in DOMAIN hit /\ hit[f] # ""}
  IN [id |-> Get(hit, "id", "unknown"),
      content |-> Get(hit, "content", ""),
      metadata |-> [f \in DOMAIN parsed \cup top_level |->
                      IF f \in top_level THEN hit[f] ELSE parsed[f]],
      similarity_score |-> Get(hit, "@search.score", Float(0, 1, 0))]

\* retrieve(query, top_k, filter_expr) of a SimpleAzureRAG: one keyword
\* search for the query text; whatever it raises is logged and answered
\* with [].
simple_azure_retrieve(self_top_k, service, query, top_k, filter_expr) ==
  LET call == SimpleSearchCall(query, IF filter_expr.given THEN <<filter_expr.v>> ELSE <<>>,
                               OrDefault(top_k, self_top_k))
      hits == TopK(service.matches, OrDefault(top_k, self_top_k))
  IN IF service.search = "fails"
       THEN [raised |-> FALSE, results |-> <<>>, trace |-> <<call>>]
       ELSE [raised |-> FALSE,
             results |-> [i \in 1..Len(hits) |-> ProcessSimpleHit(hits[i])],
             trace |-> <<call>>]

\* ---------------------------------------- usage limits of the Streamlit app
\* Optional[int]: None or a number.
NoLimit == [given |-> FALSE, v |-> 0]
Limit(n) == [given |-> TRUE, v |-> n]

\* The arguments initialize_usage_limiter builds its UsageLimiter with.
prompt_limit == 20
reset_period_hours == 24
default_admin_ips == {"127.0.0.1", "::1", "localhost", "0.0.0.0", "[::]"}

\* UsageLimiter(...): a new object; its _usage_data starts as {}.  Times are
\* hours on the clock.
UsageLimiter(prompts, tokens, hours, unlimited_ips) ==
  [prompt_limit |-> prompts, token_limit |-> tokens, reset_period |-> hours,
   unlimited_ips |-> unlimited_ips, enabled |-> TRUE, usage_data |-> EmptyDict]

\* limiter.track_usage(ip) at the time now, tokens=None: the limiter after
\* the call and the dict it returns.
track_usage(limiter, ip, now) ==
  IF ip \in limiter.unlimited_ips
    THEN [limiter |-> limiter, user_data |-> EmptyDict]
    ELSE
      LET found == IF ip \in DOMAIN limiter.usage_data
                     THEN limiter.usage_data[ip]
                     ELSE [prompt_count |-> 0, token_count |-> 0, last_reset |-> now]
          current == IF now - found.last_reset > limiter.reset_period
                       THEN [prompt_count |-> 0, token_count |-> 0, last_reset |-> now]
                       ELSE found
          user_data == [current EXCEPT !.prompt_count = @ + 1]
      IN [limiter |-> [limiter EXCEPT !.usage_data =
                         [i \in DOMAIN @ \cup {ip} |-> IF i = ip THEN user_data ELSE @[i]]],
          user_data |-> user_data]

\* initialize_usage_limiter(), config_admin_ips being what admin_ips.txt or
\* ADMIN_IPS lists.
initialize_usage_limiter(config_admin_ips) ==
  UsageLimiter(Limit(prompt_limit), NoLimit, reset_period_hours,
               default_admin_ips \cup config_admin_ips)

\* The limiter argument of check_usage_limits: None or a UsageLimiter.
NoLimiter == [given |-> FALSE, v |-> EmptyDict]

\* check_usage_limits(limiter) for the client at client_ip, at the time now:
\* the pair it returns, and the limiter it worked on as the call leaves it.
check_usage_limits(limiter_arg, client_ip, now, config_admin_ips) ==
  LET limiter == IF limiter_arg.given THEN limiter_arg.v
                 ELSE initialize_usage_limiter(config_admin_ips)
      tracked == track_usage(limiter, client_ip, now)
  IN IF ~limiter.enabled
       THEN [allowed |-> TRUE, reason |-> "Usage limiting disabled", limiter |-> limiter]
     ELSE IF client_ip \in limiter.unlimited_ips
       THEN [allowed |-> TRUE, reason |-> "Unlimited IP", limiter |-> limiter]
     ELSE IF limiter.prompt_limit.given
             /\ Get(tracked.user_data, "prompt_count", 0) > limiter.prompt_limit.v
       THEN [allowed |-> FALSE, reason |-> "Prompt limit exceeded",
             limiter |-> tracked.limiter]
     ELSE IF limiter.token_limit.given
             /\ Get(tracked.user_data, "token_count", 0) > limiter.token_limit.v
       THEN [allowed |-> FALSE, reason |-> "Token limit exceeded",
             limiter |-> tracked.limiter]
     ELSE [allowed |-> TRUE, reason |-> "Usage within limits", limiter |-> tracked.limiter]

\* ------------------------------------------------- usage limits of the API
\* UserUsageLimiter.__init__ with nothing set in the environment.
user_prompt_limit == 50
user_token_limit == 25000
user_reset_period_hours == 24

\* The names that user_usage_limiter.py and api.py bind at module level.
user_usage_limiter_names ==
  {"os", "logging", "datetime", "timedelta", "Dict", "Tuple", "Optional", "Any",
   "get_db", "logger", "UserUsageLimiter"}
api_names ==
  {"os", "json", "uuid", "datetime", "wraps", "Flask", "request", "jsonify", "CORS",
   "generate_password_hash", "check_password_hash", "jwt", "re", "sys",
   "UsageLimiter", "get_usage_data", "check_admin_status", "DB_TYPE",
   "get_users", "get_user_by_id", "get_user_by_email", "create_user", "update_user",
   "save_chat_message", "get_chat_history", "get_conversation",
   "delete_conversation", "track_usage", "check_usage_limits", "migrate_from_json",
   "setup_admin_collection", "is_admin_ip", "add_admin_ip", "delete_user",
   "process_query", "process_query_fallback", "app", "JWT_SECRET_KEY",
   "ADMIN_PASSWORD", "USER_DB_FILE", "TOKEN_EXPIRY", "api_key", "endpoint",
   "model_name", "get_client_ip", "token_required", "register", "login", "chat",
   "get_profile", "get_user_chat_history", "get_specific_conversation",
   "delete_specific_conversation", "admin_stats", "set_admin_status",
   "create_checkout_session", "check_subscription_status", "stripe_webhook",
   "upgrade_plan", "delete_user_account", "get_user_usage_stats"}

\* The value of last_reset in a user_usage document: a datetime, or the
\* document {"$cond": [...]} that track_request's $set holds in its place.
Datetime(at) == [kind |-> "datetime", at |-> at]
CondDocument == [kind |-> "document", at |-> 0]

\* reset_usage(user_id): a $set whose value has the key "$push".  A server
\* that refuses field names with $ fails the update (caught, FALSE is
\* returned); one that accepts them stores the counters.
reset_usage(user_usage, user_id, now, accepts) ==
  IF ~accepts \/ user_id \notin DOMAIN user_usage
    THEN user_usage
    ELSE [user_usage EXCEPT ![user_id] =
            [prompt_count |-> 0, token_count |-> 0, last_reset |-> Datetime(now)]]

\* check_limits(user_id) on the user_usage collection at the time now
\* (enabled): whether it raised, the pair it returned, and the collection
\* after it.  datetime.utcnow() minus a last_reset that is no datetime raises
\* TypeError.
check_limits(user_usage, user_id, now, accepts) ==
  IF user_id = ""
    THEN [raised |-> FALSE, allowed |-> TRUE, reason |-> "No user ID provided",
          user_usage |-> user_usage]
  ELSE IF user_id \notin DOMAIN user_usage
    THEN [raised |-> FALSE, allowed |-> TRUE, reason |-> "No previous usage",
          user_usage |-> user_usage]
  ELSE LET doc == user_usage[user_id] IN
    IF doc.last_reset.kind # "datetime"
      THEN [raised |-> TRUE, allowed |-> TRUE, reason |-> "TypeError",
            user_usage |-> user_usage]
    ELSE IF now - doc.last_reset.at > user_reset_period_hours
      THEN [raised |-> FALSE, allowed |-> TRUE, reason |-> "Usage reset",
            user_usage |-> reset_usage(user_usage, user_id, now, accepts)]
    ELSE IF doc.prompt_count >= user_prompt_limit
      THEN [raised |-> FALSE, allowed |-> FALSE, reason |-> "Prompt limit exceeded",
            user_usage |-> user_usage]
    ELSE IF doc.token_count >= user_token_limit
      THEN [raised |-> FALSE, allowed |-> FALSE, reason |-> "Token limit exceeded",
            user_usage |-> user_usage]
    ELSE [raised |-> FALSE, allowed |-> TRUE, reason |-> "Usage within limits",
          user_usage |-> user_usage]

\* track_request(user_id, tokens_used, request_type) (enabled): one upsert
\* that adds to the counters and sets last_reset to the $cond document; a
\* server that refuses that field name raises and stores nothing.
track_request(user_usage, user_id, tokens_used, request_type, accepts) ==
  IF user_id = ""
    THEN [raised |-> FALSE, user_usage |-> user_usage]
  ELSE IF ~accepts
    THEN [raised |-> TRUE, user_usage |-> user_usage]
  ELSE
    LET old == IF user_id \in DOMAIN user_usage THEN user_usage[user_id]
               ELSE [prompt_count |-> 0, token_count |-> 0, last_reset |-> CondDocument]
        new == [prompt_count |-> old.prompt_count + (IF request_type = "prompt" THEN 1 ELSE 0),
                token_count |-> old.token_count + tokens_used,
                last_reset |-> CondDocument]
    IN [raised |-> FALSE,
        user_usage |-> [u \in DOMAIN user_usage \cup {user_id} |->
                          IF u = user_id THEN new ELSE user_usage[u]]]

\* The users of the API, as get_user_by_id gives them.
UserFree == [id |-> "u1", plan |-> "free"]
UserPremium == [id |-> "u2", plan |-> "premium"]

\* What process_query does with the message: a text, or an exception.
ChatReplies ==
  {[kind |-> "ok", content |-> <<"an", "answer">>], [kind |-> "error", content |-> <<>>]}

\* How the handler leaves: the HTTP status, whether the message was handed to
\* process_query, and the user_usage collection.
ChatOutcome(status, processed, user_usage) ==
  [status |-> status, processed |-> processed, user_usage |-> user_usage]

\* POST /api/chat with the valid token of user and the message (a str, as
\* its words): the limit check of lines 260-276, process_query, and the
\* usage log of lines 336-355.  `from src.user_usage_limiter import
\* check_user_limit` raises ImportError unless the module binds that name, and
\* `user_limiter` raises NameError unless api.py binds it; both are caught and
\* the handler goes on.  With the name bound, the check is check_limits.
chat(user, message, reply, user_usage, now, accepts) ==
  LET checkable == user.plan # "premium" /\ "check_user_limit" \in user_usage_limiter_names
      limit_check == check_limits(user_usage, user.id, now, accepts)
      checked == IF checkable THEN limit_check.user_usage ELSE user_usage
      token_estimate == Len(message) + Len(reply.content)
      tracked == IF "user_limiter" \in api_names
                   THEN track_request(checked, user.id, token_estimate, "prompt", accepts).user_usage
                   ELSE checked
  IN IF message = <<>>
       THEN ChatOutcome(400, FALSE, user_usage)
     ELSE IF checkable /\ ~limit_check.raised /\ ~limit_check.allowed
       THEN ChatOutcome(429, FALSE, checked)
     ELSE IF reply.kind = "error"
       THEN ChatOutcome(500, TRUE, checked)
     ELSE ChatOutcome(200, TRUE, tracked)

\* ------------------------------------------------- requests, as counted
\* The clients of the two front ends: the users of the API and the IPs of
\* the Streamlit app.
ClientIps == {"10.0.0.7", "127.0.0.1"}
Clients == {UserFree.id, UserPremium.id} \cup ClientIps

\* One more request of a client, counted by reset period: a period starts
\* with the first request after the one before has run out.
Counted(window, now, hours) ==
  IF window.count = 0 \/ now - window.start > hours
    THEN [start |-> now, count |-> 1]
    ELSE [window EXCEPT !.count = @ + 1]

\* The requests a client has made in the reset period that now lies in.
MadeInPeriod(window, now, hours) ==
  IF window.count = 0 \/ now - window.start > hours THEN 0 ELSE window.count

\* Nothing recorded and nothing counted, the clock at 0.
NoUsage ==
  [clock |-> 0, user_usage |-> EmptyDict,
   window |-> [c \in Clients |-> [start |-> 0, count |-> 0]]]

\* A thread inside similarity_search.  pc: "idle", "check" (line 98),
\* "iterate" (line 106, enumerate(self.embeddings) is about to be built),
\* "next" (the loop asks the list iterator for its next element), "build"
\* (the result loop of line 129), "done".  The list iterator holds the list
\* object that self.embeddings named when it was built: live tells whether
\* self.embeddings still names that object, detached is what the object
\* holds once it no longer does.  i counts the elements taken from it.
NoSearch ==
  [pc |-> "idle", query_embedding |-> <<>>, k |-> 0, score_threshold |-> None,
   live |-> TRUE, detached |-> <<>>, i |-> 0, similarities |-> <<>>,
   top_k |-> <<>>, results |-> <<>>, raised |-> "none"]

\* A thread inside add_documents or load.  pc: "idle", "clear_documents"
\* (line 204), "clear_embeddings" (line 205), "add" (the head of the for loop
\* of add_documents), "append_embedding" (line 75, after line 74 appended the
\* document), "done".  todo is the rest of the batch.
NoWrite == [pc |-> "idle", op |-> "none", todo |-> <<>>, ok |-> TRUE]

\* ------------------------------------------------------------------ calls
NoCall ==
  [op |-> "none", batch |-> <<>>, query_embedding |-> <<>>, k |-> 0,
   score_threshold |-> None, ok |-> TRUE, raised |-> FALSE, added_count |-> 0,
   results |-> <<>>, pre_documents |-> <<>>, pre_embeddings |-> <<>>,
   again |-> FALSE, prev_raised |-> FALSE, prev_results |-> <<>>,
   query |-> "", top_k |-> NoTopK, model_ok |-> TRUE, chat_history |-> <<>>,
   reply |-> [kind |-> "none", content |-> <<>>], response |-> <<>>,
   sources |-> <<>>, docs |-> <<>>, text |-> <<>>,
   doc_id |-> "", document |-> NoDocument,
   client |-> "", message |-> <<>>, status |-> 0, allowed |-> TRUE,
   processed |-> FALSE, made |-> 0]

Call(op) ==
  [NoCall EXCEPT !.op = op, !.pre_documents = documents,
                 !.pre_embeddings = embeddings]

\* No LocalRAG, no adapter call and no thread at work.
NoRag == [top_k |-> 0, similarity_threshold |-> None]
NothingBeyondStore ==
  /\ rag = NoRag
  /\ trace = <<>>
  /\ remote = NoRemote
  /\ search_thread = NoSearch
  /\ write_thread = NoWrite
  /\ usage = NoUsage

\* LocalVectorStore(...): both lists empty; nothing on disk yet.
Init ==
  /\ documents = <<>>
  /\ embeddings = <<>>
  /\ persist_directory = FALSE
  /\ disk = MissingFile
  /\ last = NoCall
  /\ NothingBeyondStore

AddDocuments ==
  \E batch \in SeqsUpTo(InputPool, MaxBatch) :
    LET r == add_documents(documents, embeddings, batch) IN
      /\ Len(documents) + Len(batch) <= MaxDocs
      /\ documents' = r.documents
      /\ embeddings' = r.embeddings
      /\ last' = [Call("add_documents") EXCEPT !.batch = batch,
                    !.added_count = r.added_count, !.raised = r.raised]
      /\ UNCHANGED <<persist_directory, disk>>
      /\ UNCHANGED beyondStore

SimilaritySearch ==
  \E query_embedding \in QueryPool, k \in 1..MaxK, score_threshold \in ThresholdPool :
    LET r == similarity_search(documents, embeddings, query_embedding, k,
                               score_threshold) IN
      /\ documents' = r.documents
      /\ embeddings' = r.embeddings
      /\ last' = [Call("similarity_search") EXCEPT
                    !.query_embedding = query_embedding, !.k = k,
                    !.score_threshold = score_threshold,
                    !.raised = r.raised, !.results = r.results]
      /\ UNCHANGED <<persist_directory, disk>>
      /\ UNCHANGED beyondStore

\* The caller repeats its latest similarity_search: same query, k and
\* threshold.  The call before is kept beside the new one.
SimilaritySearchAgain ==
  /\ last.op = "similarity_search"
  /\ LET r == similarity_search(documents, embeddings, last.query_embedding, last.k,
                                last.score_threshold) IN
       /\ documents' = r.documents
       /\ embeddings' = r.embeddings
       /\ last' = [Call("similarity_search") EXCEPT
                     !.query_embedding = last.query_embedding, !.k = last.k,
                     !.score_threshold = last.score_threshold,
                     !.raised = r.raised, !.results = r.results,
                     !.again = TRUE, !.prev_raised = last.raised,
                     !.prev_results = last.results]
  /\ UNCHANGED <<persist_directory, disk>>
  /\ UNCHANGED beyondStore

Save ==
  LET r == save(documents, persist_directory, disk) IN
    /\ disk' = r.disk
    /\ last' = [Call("save") EXCEPT !.ok = r.ok]
    /\ UNCHANGED <<documents, embeddings, persist_directory>>
    /\ UNCHANGED beyondStore

Load ==
  LET r == load(disk, documents, embeddings) IN
    /\ documents' = r.documents
    /\ embeddings' = r.embeddings
    /\ last' = [Call("load") EXCEPT !.ok = r.ok]
    /\ UNCHANGED <<persist_directory, disk>>
    /\ UNCHANGED beyondStore

\* The file is put, replaced or removed from outside the store.
WriteFile ==
  \E file \in FilePool :
    /\ disk' = file
    /\ last' = Call("write_file")
    /\ UNCHANGED <<documents, embeddings, persist_directory>>
    /\ UNCHANGED beyondStore

Next == AddDocuments \/ SimilaritySearch

Spec == Init /\ [][Next]_vars

\* Persistence: a store filled by one add_documents call, with or without a
\* persist directory, then saved, loaded and handed files in any order.
InitPersist ==
  \E batch \in SeqsUpTo(InputPool, MaxDocs) :
    LET r == add_documents(<<>>, <<>>, batch) IN
      /\ documents = r.documents
      /\ embeddings = r.embeddings
      /\ persist_directory \in BOOLEAN
      /\ disk = MissingFile
      /\ last = NoCall
      /\ NothingBeyondStore

\* Searching: a store filled by one add_documents call, searched again and
\* again, each search either a new one or the latest one repeated.
InitRepeat ==
  \E batch \in SeqsUpTo(InputPool, MaxDocs) :
    LET r == add_documents(<<>>, <<>>, batch) IN
      /\ documents = r.documents
      /\ embeddings = r.embeddings
      /\ persist_directory = FALSE
      /\ disk = MissingFile
      /\ last = NoCall
      /\ NothingBeyondStore

NextRepeat == SimilaritySearch \/ SimilaritySearchAgain

SpecRepeat == InitRepeat /\ [][NextRepeat]_vars

\* Looking documents up by id, in a store that is being filled.
LookupPool == {DocA, DocB, DocC, DocNoId}
IdPool == {"a", "b", "zz"}

InitLookup ==
  \E batch \in SeqsUpTo(LookupPool, MaxDocs) :
    LET r == add_documents(<<>>, <<>>, batch) IN
      /\ documents = r.documents
      /\ embeddings = r.embeddings
      /\ persist_directory = FALSE
      /\ disk = MissingFile
      /\ last = NoCall
      /\ NothingBeyondStore

GetDocumentById ==
  \E doc_id \in IdPool :
    /\ last' = [Call("get_document_by_id") EXCEPT !.doc_id = doc_id,
                  !.document = get_document_by_id(documents, doc_id)]
    /\ UNCHANGED <<documents, embeddings, persist_directory, disk>>
    /\ UNCHANGED beyondStore

NextLookup == AddDocuments \/ GetDocumentById

SpecLookup == InitLookup /\ [][NextLookup]_vars

\* A store with a persist directory, filled once, then searched and saved in
\* any order.
InitSearchSave ==
  \E batch \in SeqsUpTo(InputPool, MaxDocs) :
    LET r == add_documents(<<>>, <<>>, batch) IN
      /\ documents = r.documents
      /\ embeddings = r.embeddings
      /\ persist_directory = TRUE
      /\ disk = MissingFile
      /\ last = NoCall
      /\ NothingBeyondStore

NextSearchSave == SimilaritySearch \/ Save

SpecSearchSave == InitSearchSave /\ [][NextSearchSave]_vars

\* Every method of a store built as LocalVectorStore(), with no persist
\* directory, in any order; the file that load reads is a snapshot of two
\* documents or one whose second entry is no document.
StoreFiles ==
  { File("object", "list", <<JsonEncode(DocB), JsonEncode(DocA)>>),
    File("object", "list", <<JsonEncode(DocA), NonDict>>) }

InitStore ==
  /\ documents = <<>>
  /\ embeddings = <<>>
  /\ persist_directory = FALSE
  /\ disk \in StoreFiles
  /\ last = NoCall
  /\ NothingBeyondStore

NextStore == AddDocuments \/ SimilaritySearch \/ Save \/ Load

SpecStore == InitStore /\ [][NextStore]_vars

NextPersist == Save \/ Load \/ WriteFile

SpecPersist == InitPersist /\ [][NextPersist]_vars

\* ------------------------------------------ two threads on one store
\* The statements of similarity_search, add_documents and load one at a
\* time, the way two Python threads sharing a LocalVectorStore interleave
\* them: the class takes no lock.
ThreadDocs == {DocA, DocB}
ThreadQueries == {<<1, 0>>, <<1, 1>>}
ThreadFiles ==
  { MissingFile,
    File("object", "absent", <<>>),
    File("object", "list", <<JsonEncode(DocB), JsonEncode(DocA)>>),
    File("object", "list", <<JsonEncode(DocA), NonDict>>) }

InitThreads ==
  \E batch \in SeqsUpTo(ThreadDocs, MaxDocs), file \in ThreadFiles :
    LET r == add_documents(<<>>, <<>>, batch) IN
      /\ documents = r.documents
      /\ embeddings = r.embeddings
      /\ persist_directory = FALSE
      /\ disk = file
      /\ last = NoCall
      /\ NothingBeyondStore

storeAndCalls == <<persist_directory, disk, last, rag, trace, remote, usage>>

\* similarity_search is entered.
SearchStart ==
  \E query_embedding \in ThreadQueries, k \in 1..MaxK,
     score_threshold \in {None} :
    /\ search_thread.pc = "idle"
    /\ search_thread' = [NoSearch EXCEPT !.pc = "check",
                           !.query_embedding = query_embedding, !.k = k,
                           !.score_threshold = score_threshold]
    /\ UNCHANGED <<documents, embeddings, write_thread>>
    /\ UNCHANGED storeAndCalls

\* if not self.embeddings: return []
SearchCheck ==
  /\ search_thread.pc = "check"
  /\ search_thread' = [search_thread EXCEPT
                         !.pc = IF embeddings = <<>> THEN "done" ELSE "iterate"]
  /\ UNCHANGED <<documents, embeddings, write_thread>>
  /\ UNCHANGED storeAndCalls

\* enumerate(self.embeddings): the iterator takes the list self.embeddings
\* names now.
SearchIterate ==
  /\ search_thread.pc = "iterate"
  /\ search_thread' = [search_thread EXCEPT !.pc = "next", !.live = TRUE, !.i = 0]
  /\ UNCHANGED <<documents, embeddings, write_thread>>
  /\ UNCHANGED storeAndCalls

\* One turn of the scoring loop, or its end: then the sort, the threshold
\* and the cut to k, which work on the thread's own list.
SearchNext ==
  /\ search_thread.pc = "next"
  /\ LET list == IF search_thread.live THEN embeddings ELSE search_thread.detached
         q == search_thread.query_embedding
     IN IF search_thread.i >= Len(list)
          THEN LET top == TopK(ApplyThreshold(SortDescending(search_thread.similarities),
                                               search_thread.score_threshold),
                               search_thread.k)
               IN search_thread' = [search_thread EXCEPT
                                      !.top_k = top,
                                      !.pc = IF top = <<>> THEN "done" ELSE "build"]
          ELSE LET doc_embedding == list[search_thread.i + 1] IN
            IF Norm2(q) > 0 /\ Norm2(doc_embedding) > 0
              THEN IF Len(q) # Len(doc_embedding)
                     THEN search_thread' = [search_thread EXCEPT
                                              !.pc = "done", !.raised = "ValueError"]
                     ELSE search_thread' =
                            [search_thread EXCEPT
                               !.i = @ + 1,
                               !.similarities =
                                  Append(@, [idx |-> search_thread.i + 1,
                                             score |-> CosineSimilarity(q, doc_embedding)])]
              ELSE search_thread' = [search_thread EXCEPT !.i = @ + 1]
  /\ UNCHANGED <<documents, embeddings, write_thread>>
  /\ UNCHANGED storeAndCalls

\* One turn of the result loop: doc = self.documents[idx].copy() reads the
\* list self.documents names now; IndexError when it is too short.
SearchBuild ==
  /\ search_thread.pc = "build"
  /\ LET j == Len(search_thread.results) + 1
         idx == search_thread.top_k[j].idx
     IN IF idx > Len(documents)
          THEN search_thread' = [search_thread EXCEPT
                                   !.pc = "done", !.raised = "IndexError"]
          ELSE search_thread' =
                 [search_thread EXCEPT
                    !.results = Append(@, ResultDoc(documents[idx],
                                                    search_thread.top_k[j].score)),
                    !.pc = IF j = Len(search_thread.top_k) THEN "done" ELSE "build"]
  /\ UNCHANGED <<documents, embeddings, write_thread>>
  /\ UNCHANGED storeAndCalls

\* The call is over; the caller has its list or its exception.
SearchReturn ==
  /\ search_thread.pc = "done"
  /\ search_thread' = NoSearch
  /\ UNCHANGED <<documents, embeddings, write_thread>>
  /\ UNCHANGED storeAndCalls

\* add_documents(batch) is entered.
AddStart ==
  \E batch \in SeqsUpTo(ThreadDocs, MaxBatch) :
    /\ write_thread.pc = "idle"
    /\ batch # <<>>
    /\ Len(documents) + Len(batch) <= MaxDocs
    /\ write_thread' = [NoWrite EXCEPT !.pc = "add", !.op = "add_documents",
                          !.todo = batch]
    /\ UNCHANGED <<documents, embeddings, search_thread>>
    /\ UNCHANGED storeAndCalls

\* load(file_path) is entered: open, json.load and data.get, which touch no
\* list; a file they fail on ends the call with False.
LoadStart ==
  /\ write_thread.pc = "idle"
  /\ IF disk.kind \in {"missing", "text", "array"}
       THEN write_thread' = [NoWrite EXCEPT !.pc = "done", !.op = "load", !.ok = FALSE]
       ELSE write_thread' =
              [NoWrite EXCEPT
                 !.pc = "clear_documents", !.op = "load",
                 !.todo = IF disk.documents = "list"
                            THEN [i \in 1..Len(disk.items) |-> JsonDecode(disk.items[i])]
                            ELSE <<>>]
  /\ UNCHANGED <<documents, embeddings, search_thread>>
  /\ UNCHANGED storeAndCalls

\* self.documents = []
LoadClearDocuments ==
  /\ write_thread.pc = "clear_documents"
  /\ documents' = <<>>
  /\ write_thread' = [write_thread EXCEPT !.pc = "clear_embeddings"]
  /\ UNCHANGED <<embeddings, search_thread>>
  /\ UNCHANGED storeAndCalls

\* self.embeddings = []: a new list object; an iterator built on the old
\* one keeps the old one.  Then add_documents is entered, and a "documents"
\* value that is no list makes its for statement raise.
LoadClearEmbeddings ==
  /\ write_thread.pc = "clear_embeddings"
  /\ embeddings' = <<>>
  /\ search_thread' = IF search_thread.pc = "next" /\ search_thread.live
                        THEN [search_thread EXCEPT !.live = FALSE,
                                                   !.detached = embeddings]
                        ELSE search_thread
  /\ write_thread' = IF disk.documents = "number"
                       THEN [write_thread EXCEPT !.pc = "done", !.ok = FALSE]
                       ELSE [write_thread EXCEPT !.pc = "add"]
  /\ UNCHANGED documents
  /\ UNCHANGED storeAndCalls

\* The head of the for loop of add_documents: the two field tests and
\* self.documents.append(doc), or the end of the loop.
WriteAdd ==
  /\ write_thread.pc = "add"
  /\ IF write_thread.todo = <<>>
       THEN /\ write_thread' = [write_thread EXCEPT !.pc = "done"]
            /\ UNCHANGED documents
       ELSE LET doc == Head(write_thread.todo) IN
         IF ~IsDict(doc)
           THEN /\ write_thread' = [write_thread EXCEPT !.pc = "done", !.ok = FALSE]
                /\ UNCHANGED documents
         ELSE IF embeddings_field \notin DOMAIN doc \/ content_field \notin DOMAIN doc
           THEN /\ write_thread' = [write_thread EXCEPT !.todo = Tail(@)]
                /\ UNCHANGED documents
         ELSE /\ documents' = Append(documents, doc)
              /\ write_thread' = [write_thread EXCEPT !.pc = "append_embedding"]
  /\ UNCHANGED <<embeddings, search_thread>>
  /\ UNCHANGED storeAndCalls

\* self.embeddings.append(embedding)
WriteAppendEmbedding ==
  /\ write_thread.pc = "append_embedding"
  /\ embeddings' = Append(embeddings, NpArray(Head(write_thread.todo)[embeddings_field]))
  /\ write_thread' = [write_thread EXCEPT !.pc = "add", !.todo = Tail(@)]
  /\ UNCHANGED <<documents, search_thread>>
  /\ UNCHANGED storeAndCalls

\* add_documents or load returns.
WriteReturn ==
  /\ write_thread.pc = "done"
  /\ write_thread' = NoWrite
  /\ UNCHANGED <<documents, embeddings, search_thread>>
  /\ UNCHANGED storeAndCalls

NextThreads ==
  \/ SearchStart \/ SearchCheck \/ SearchIterate \/ SearchNext \/ SearchBuild
  \/ SearchReturn
  \/ AddStart \/ LoadStart \/ LoadClearDocuments \/ LoadClearEmbeddings
  \/ WriteAdd \/ WriteAppendEmbedding \/ WriteReturn

SpecThreads == InitThreads /\ [][NextThreads]_vars

\* ------------------------------------------------ the adapter at work
RemotePool ==
  { Remote(inspect, fields, search, matches, items) :
      inspect \in {"fails", "fields"}, fields \in {PlainIndex, VectorIndex},
      search \in {"ok", "fails"}, matches \in SeqsUpTo(HitPool, MaxDocs),
      items \in {"object", "dict"} }

InitAzure ==
  /\ documents = <<>>
  /\ embeddings = <<>>
  /\ persist_directory = FALSE
  /\ disk = MissingFile
  /\ last = NoCall
  /\ rag = NoRag
  /\ trace = <<>>
  /\ remote \in RemotePool
  /\ search_thread = NoSearch
  /\ write_thread = NoWrite
  /\ usage = NoUsage

AzureSimilaritySearch ==
  \E query_embedding \in ThreadQueries, k \in 1..MaxK,
     content_filter \in {NoFilter, Filter("council")},
     metadata_filter \in {NoFilter, Filter("eo_number eq '14000'")} :
    LET r == azure_similarity_search(remote, query_embedding, k, content_filter,
                                     metadata_filter) IN
      /\ trace' = r.trace
      /\ last' = [Call("azure_similarity_search") EXCEPT
                    !.query_embedding = query_embedding, !.k = k,
                    !.raised = r.raised, !.results = r.results]
      /\ UNCHANGED <<documents, embeddings, persist_directory, disk, rag, remote,
                     search_thread, write_thread, usage>>

TopKArgs == {NoTopK} \cup {TopKArg(n) : n \in 1..MaxK}

AzureRetrieve ==
  \E query \in QueryTexts, top_k \in TopKArgs, model_ok \in BOOLEAN :
    LET r == azure_retrieve(rag.top_k, remote, query, top_k, NoFilter, NoFilter,
                            model_ok) IN
      /\ trace' = r.trace
      /\ last' = [Call("azure_retrieve") EXCEPT !.query = query, !.top_k = top_k,
                    !.model_ok = model_ok, !.raised = r.raised,
                    !.results = r.results]
      /\ UNCHANGED <<documents, embeddings, persist_directory, disk, rag, remote,
                     search_thread, write_thread, usage>>

SimpleAzureRetrieve ==
  \E query \in QueryTexts, top_k \in TopKArgs :
    LET r == simple_azure_retrieve(rag.top_k, remote, query, top_k, NoFilter) IN
      /\ trace' = r.trace
      /\ last' = [Call("simple_azure_retrieve") EXCEPT !.query = query,
                    !.top_k = top_k, !.raised = r.raised, !.results = r.results]
      /\ UNCHANGED <<documents, embeddings, persist_directory, disk, rag, remote,
                     search_thread, write_thread, usage>>

NextAzure == AzureSimilaritySearch

SpecAzure == InitAzure /\ [][NextAzure]_vars

\* The two remote retrievers at work, each built with its configured top_k
\* over one remote service.
InitAzureRAG ==
  /\ documents = <<>>
  /\ embeddings = <<>>
  /\ persist_directory = FALSE
  /\ disk = MissingFile
  /\ last = NoCall
  /\ \E k \in 1..MaxK : rag = [top_k |-> k, similarity_threshold |-> None]
  /\ trace = <<>>
  /\ remote \in RemotePool
  /\ search_thread = NoSearch
  /\ write_thread = NoWrite
  /\ usage = NoUsage

NextAzureRAG == AzureRetrieve \/ SimpleAzureRetrieve

SpecAzureRAG == InitAzureRAG /\ [][NextAzureRAG]_vars

\* -------------------------------------------------------- LocalRAG at work
\* Documents as a retriever hands them to format_context.
RetrievedPool ==
  { ResultDoc(DocA, Float(1, 1, 0)),
    ResultDoc(DocB, Float(0, 1, 0)),
    ResultDoc(DocC, Float(1, 2, -1)),
    ResultDoc(DocD, Float(0, 1, 0)),
    [id |-> "m", content |-> "mu", metadata |-> EmptyDict,
     similarity_score |-> Float(0, 1, 0)],
    [id |-> "p", content |-> "pi", metadata |-> [page_number |-> 3],
     similarity_score |-> Float(0, 1, 0)],
    [id |-> "t", content |-> "tau",
     metadata |-> [title |-> "EO Two", eo_number |-> "14001",
                   source_filename |-> "t.txt"],
     similarity_score |-> Float(0, 1, 0)] }

\* Source entries as format_response_with_sources may be handed them.
SourcePool ==
  { [title |-> "EO One", chunk_id |-> "a"],
    [title |-> "EO Two", eo_number |-> "14001", chunk_id |-> "t"],
    [title |-> "Unknown Source", page |-> 3],
    [chunk_id |-> "x"] }

ChatHistories == {<<>>, <<[role |-> "user", content |-> "hello"]>>}

\* LocalRAG(vector_store_path, top_k, similarity_threshold): the store is
\* loaded from the file, and a failed load raises ValueError, so a LocalRAG
\* exists only over a file that loaded.
InitRAG ==
  \E file \in FilePool, k \in 1..MaxK, t \in ThresholdPool :
    LET r == load(file, <<>>, <<>>) IN
      /\ r.ok
      /\ documents = r.documents
      /\ embeddings = r.embeddings
      /\ persist_directory = FALSE
      /\ disk = file
      /\ last = NoCall
      /\ rag = [top_k |-> k, similarity_threshold |-> t]
      /\ trace = <<>>
      /\ remote = NoRemote
      /\ search_thread = NoSearch
      /\ write_thread = NoWrite
      /\ usage = NoUsage

Retrieve ==
  \E query \in QueryTexts, model_ok \in BOOLEAN,
     top_k \in {NoTopK} \cup {TopKArg(n) : n \in 1..MaxK} :
    LET r == retrieve(rag, documents, embeddings, query, top_k, model_ok) IN
      /\ trace' = r.trace
      /\ last' = [Call("retrieve") EXCEPT !.query = query, !.top_k = top_k,
                    !.model_ok = model_ok, !.raised = r.raised,
                    !.results = r.results,
                    !.again = (last.op = "retrieve" /\ last.query = query)]
      /\ UNCHANGED <<documents, embeddings, persist_directory, disk, rag, remote,
                     search_thread, write_thread, usage>>

ProcessQuery ==
  \E query \in QueryTexts, model_ok \in BOOLEAN, reply \in ReplyPool,
     chat_history \in ChatHistories :
    LET r == process_query(rag, documents, embeddings, query, chat_history,
                           model_ok, reply) IN
      /\ trace' = r.trace
      /\ last' = [Call("process_query") EXCEPT !.query = query,
                    !.model_ok = model_ok, !.chat_history = chat_history,
                    !.reply = reply, !.raised = r.raised,
                    !.response = r.response, !.sources = r.sources]
      /\ UNCHANGED <<documents, embeddings, persist_directory, disk, rag, remote,
                     search_thread, write_thread, usage>>

FormatContext ==
  \E docs \in SeqsUpTo(RetrievedPool, MaxDocs) :
    /\ last' = [Call("format_context") EXCEPT !.docs = docs,
                  !.text = format_context(docs)]
    /\ UNCHANGED <<documents, embeddings, persist_directory, disk, rag, trace,
                   remote, search_thread, write_thread, usage>>

FormatResponseWithSources ==
  \E response \in AnswerPool \cup {NoRelevantInformation},
     source_documents \in SeqsUpTo(SourcePool, MaxDocs) :
    /\ last' = [Call("format_response_with_sources") EXCEPT
                  !.response = response, !.sources = source_documents,
                  !.text = format_response_with_sources(response, source_documents)]
    /\ UNCHANGED <<documents, embeddings, persist_directory, disk, rag, trace,
                   remote, search_thread, write_thread, usage>>

NextRAG == Retrieve \/ ProcessQuery

SpecRAG == InitRAG /\ [][NextRAG]_vars

\* The two formatters read no state: any LocalRAG will do.
NextFormat == FormatContext \/ FormatResponseWithSources

InitFormat ==
  /\ InitRAG
  /\ disk = File("object", "absent", <<>>)
  /\ rag = [top_k |-> 1, similarity_threshold |-> None]

SpecFormat == InitFormat /\ [][NextFormat]_vars

\* ------------------------------------------------ the front ends at work
\* Twelve hours pass.
Tick ==
  /\ usage.clock + 12 <= MaxClock
  /\ usage' = [usage EXCEPT !.clock = @ + 12]
  /\ UNCHANGED <<documents, embeddings, persist_directory, disk, last, rag, trace,
                 remote, search_thread, write_thread>>

\* The messages of a chat request: none, or a question.
ChatMessages == {<<>>, <<"about", "alpha">>}

\* POST /api/chat by an authenticated user.  The requests that were answered
\* are counted for the users that have a limit.
Chat ==
  \E user \in {UserFree, UserPremium}, message \in ChatMessages,
     reply \in ChatReplies, accepts \in BOOLEAN :
    LET r == chat(user, message, reply, usage.user_usage, usage.clock, accepts)
        made == MadeInPeriod(usage.window[user.id], usage.clock, user_reset_period_hours)
    IN /\ made < MaxRequests
       /\ usage' = [usage EXCEPT
                      !.user_usage = r.user_usage,
                      !.window[user.id] =
                        IF r.status = 200 /\ user.plan # "premium"
                          THEN Counted(@, usage.clock, user_reset_period_hours)
                          ELSE @]
       /\ last' = [Call("chat") EXCEPT !.client = user.id, !.message = message,
                     !.reply = reply, !.status = r.status,
                     !.processed = r.processed, !.made = made]
       /\ UNCHANGED <<documents, embeddings, persist_directory, disk, rag, trace,
                      remote, search_thread, write_thread>>

NextChat == Chat \/ Tick

SpecChat == Init /\ [][NextChat]_vars

\* The chat input handler of the Streamlit app: check_usage_limits() with no
\* argument, then the query is processed or the refusal is shown.  The
\* checks of the clients that have a limit are counted.
ChatInput ==
  \E client_ip \in ClientIps, query \in QueryTexts :
    LET r == check_usage_limits(NoLimiter, client_ip, usage.clock, {})
        made == MadeInPeriod(usage.window[client_ip], usage.clock, reset_period_hours)
    IN /\ made < MaxChecks
       /\ usage' = [usage EXCEPT
                      !.window[client_ip] =
                        IF client_ip \in default_admin_ips THEN @
                        ELSE Counted(@, usage.clock, reset_period_hours)]
       /\ last' = [Call("chat_input") EXCEPT !.client = client_ip, !.query = query,
                     !.allowed = r.allowed, !.processed = r.allowed,
                     !.made = made + 1]
       /\ UNCHANGED <<documents, embeddings, persist_directory, disk, rag, trace,
                      remote, search_thread, write_thread>>

NextApp == ChatInput \/ Tick

SpecApp == Init /\ [][NextApp]_vars

\* ================================================================== claims
Returned == last.op = "similarity_search" /\ ~last.raised
ScoreOf(result) == result[score_field]
HasBothFields(doc) == embeddings_field \in DOMAIN doc /\ content_field \in DOMAIN doc

\* C1: a similarity_search that returns, returns at most k results, whatever
\* the store holds and whatever query, k >= 1 and threshold it was given.
C1_AtMostK == Returned => Len(last.results) <= last.k

\* C1 witness: the store holds more scored documents than k and the call
\* returned exactly k of them.
C1_Witness ==
  /\ Returned
  /\ Len(last.results) = last.k
  /\ Len(SimilarityLoop(embeddings, last.query_embedding, 1, <<>>).similarities) > last.k

\* C2: the results are ordered by similarity_score, non-increasing: each
\* result's score is >= the score of the one after it.
C2_SortedDescending ==
  Returned =>
    \A j \in 1..(Len(last.results) - 1) :
      FloatGE(ScoreOf(last.results[j]), ScoreOf(last.results[j + 1]))

\* C2 witness: two results with different scores, the better one stored second.
C2_Witness ==
  /\ Returned
  /\ Len(last.results) = 2
  /\ FloatGT(ScoreOf(last.results[1]), ScoreOf(last.results[2]))
  /\ Len(documents) = 2
  /\ last.results[1].content = documents[2].content
  /\ last.results[2].content = documents[1].content
  /\ documents[1].content # documents[2].content

\* The stored documents that get a score for the latest query and whose score
\* is >= the threshold of the latest call.
Qualifying ==
  {i \in 1..Len(embeddings) :
     /\ Norm2(last.query_embedding) > 0
     /\ Norm2(embeddings[i]) > 0
     /\ FloatGE(CosineSimilarity(last.query_embedding, embeddings[i]),
                last.score_threshold.v)}

\* C3: with a score_threshold t, every result has similarity_score >= t, and
\* when fewer than k stored documents score >= t, the results are those
\* documents, all of them.
C3_Threshold ==
  (Returned /\ last.score_threshold.given) =>
    /\ \A j \in 1..Len(last.results) :
         FloatGE(ScoreOf(last.results[j]), last.score_threshold.v)
    /\ Cardinality(Qualifying) < last.k =>
         /\ Len(last.results) = Cardinality(Qualifying)
         /\ \A i \in Qualifying :
              \E j \in 1..Len(last.results) :
                last.results[j] =
                  ResultDoc(documents[i],
                            CosineSimilarity(last.query_embedding, embeddings[i]))

\* C3 witness: a threshold that one stored document meets exactly and another
\* misses, with k above the number that meet it; only the first is returned.
C3_Witness ==
  /\ Returned
  /\ last.score_threshold.given
  /\ Len(documents) = 2
  /\ last.k = 2
  /\ Cardinality(Qualifying) = 1
  /\ Len(last.results) = 1
  /\ FloatEQ(ScoreOf(last.results[1]), last.score_threshold.v)
  /\ \E i \in 1..2 : Norm2(embeddings[i]) > 0 /\ i \notin Qualifying

\* C4: a similarity_search repeated on the same store with the same query, k
\* and threshold returns what the call before it returned (the same documents,
\* in the same order, with the same scores, or the same error), and no
\* search changes what any later search on that store returns: it leaves the
\* two lists as they are, or at least every search on them gives what it gave.
C4_Deterministic ==
  /\ [](last.again => (last.raised = last.prev_raised /\ last.results = last.prev_results))
  /\ [][last'.op = "similarity_search" =>
          \/ (documents' = documents /\ embeddings' = embeddings)
          \/ \A q \in QueryPool, k \in 1..MaxK, t \in ThresholdPool :
               LET before == similarity_search(documents, embeddings, q, k, t)
                   after == similarity_search(documents', embeddings', q, k, t)
               IN after.raised = before.raised /\ after.results = before.results]_vars

\* C4 witness: a repeated search whose two best results tie.
C4_Witness ==
  /\ last.again
  /\ ~last.raised
  /\ Len(last.results) = 2
  /\ FloatEQ(ScoreOf(last.results[1]), ScoreOf(last.results[2]))
  /\ last.results[1] # last.results[2]

\* What a fresh LocalVectorStore() holds after load of the file on disk.
Reloaded == load(disk, <<>>, <<>>)

\* C5: after a successful save, a fresh store that loads the written file
\* answers every similarity_search (any query, k, threshold) with the same
\* sequence of results as the saved store: same content, metadata, scores
\* and order, or the same error.
C5_RoundTrip ==
  (last.op = "save" /\ last.ok) =>
    /\ Reloaded.ok
    /\ \A q \in QueryPool, k \in 1..MaxK, t \in ThresholdPool :
         LET original == similarity_search(documents, embeddings, q, k, t)
             fresh == similarity_search(Reloaded.documents, Reloaded.embeddings, q, k, t)
         IN fresh.raised = original.raised /\ fresh.results = original.results

\* C5 witness: a saved store of two documents, one of them with metadata and
\* one with a tuple embedding, which json turns into a list, so that the
\* reloaded documents are not the saved ones and the searches still agree.
C5_Witness ==
  /\ last.op = "save" /\ last.ok
  /\ Len(documents) = 2
  /\ \E i \in 1..2 : metadata_field \in DOMAIN documents[i]
  /\ \E i \in 1..2 : documents[i][embeddings_field].kind = "tuple"
  /\ Reloaded.ok
  /\ Reloaded.documents # documents
  /\ similarity_search(documents, embeddings, <<1, 1>>, 2, None).results # <<>>

\* C6: when load answers FALSE (missing file, no JSON, no well-formed
\* snapshot), the documents and embeddings lists are what they were before
\* the call.  (No exception escapes load in any case: it catches them all.)
C6_FailedLoadKeepsStore ==
  (last.op = "load" /\ ~last.ok) =>
    (documents = last.pre_documents /\ embeddings = last.pre_embeddings)

\* The entries under "documents" of the file on disk, as json.load gives them.
SnapshotDocuments ==
  IF disk.kind = "object" /\ disk.documents = "list"
    THEN [i \in 1..Len(disk.items) |-> JsonDecode(disk.items[i])]
    ELSE <<>>

\* C7 as stated: after a successful load the store holds exactly the
\* documents of the snapshot, in snapshot order, and none it held before.
C7_LoadHoldsSnapshot ==
  (last.op = "load" /\ last.ok) => documents = SnapshotDocuments

\* C7 amended: after a successful load the store holds exactly those documents
\* of the snapshot that carry both the embedding and the content field, in
\* snapshot order, with their embeddings beside them, and none of the
\* documents it held before: load replaces, it never merges.
C7_LoadReplaces ==
  (last.op = "load" /\ last.ok) =>
    /\ documents = SelectSeq(SnapshotDocuments, HasBothFields)
    /\ embeddings = [i \in 1..Len(documents) |-> NpArray(documents[i][embeddings_field])]

\* C7 witness: a store that held a document loads a snapshot of two others.
C7_Witness ==
  /\ last.op = "load" /\ last.ok
  /\ last.pre_documents # <<>>
  /\ Len(documents) = 2
  /\ documents = SnapshotDocuments
  /\ \A i \in 1..Len(last.pre_documents), j \in 1..2 : last.pre_documents[i] # documents[j]

\* C8: add_documents skips the documents that lack the content or the
\* embedding field and never aborts on them: every other document of the
\* batch is appended in input order, the return value is the number appended
\* and the store grows by exactly that number.
C8_SkipsMalformed ==
  last.op = "add_documents" =>
    LET wellFormed == SelectSeq(last.batch, HasBothFields) IN
      /\ ~last.raised
      /\ documents = last.pre_documents \o wellFormed
      /\ embeddings = last.pre_embeddings
                        \o [i \in 1..Len(wellFormed) |-> NpArray(wellFormed[i][embeddings_field])]
      /\ last.added_count = Len(wellFormed)
      /\ Len(documents) = Len(last.pre_documents) + last.added_count

\* C8 witness: a batch of a document without content followed by a
\* well-formed one, on an empty store: 1 is returned, the store holds 1.
C8_Witness ==
  /\ last.op = "add_documents"
  /\ Len(last.batch) = 2
  /\ content_field \notin DOMAIN last.batch[1]
  /\ HasBothFields(last.batch[2])
  /\ last.pre_documents = <<>>
  /\ last.added_count = 1
  /\ documents = <<last.batch[2]>>

\* C9: add_documents skips a document whose content is present but empty: it
\* is neither appended nor counted.
C9_EmptyContentSkipped ==
  last.op = "add_documents" =>
    LET accepted == SelectSeq(last.batch,
                              LAMBDA d : HasBothFields(d) /\ d[content_field] # "") IN
      /\ documents = last.pre_documents \o accepted
      /\ last.added_count = Len(accepted)

\* C10: all embeddings of a store have one length; add_documents does not
\* store a document whose embedding is of another length.
C10_OneDimension ==
  \A i, j \in 1..Len(embeddings) : Len(embeddings[i]) = Len(embeddings[j])

\* ------------------------------------------------------ claims on LocalRAG
\* What retrieval gives for the query of the latest call (the store and the
\* LocalRAG are as they were during it).
RetrievedNow == retrieve(rag, documents, embeddings, last.query, NoTopK, last.model_ok)
LlmCalls == SelectSeq(trace, LAMBDA c : c.callee = "generate_response")
NothingRetrieved == ~RetrievedNow.raised /\ RetrievedNow.results = <<>>
SomethingRetrieved == ~RetrievedNow.raised /\ RetrievedNow.results # <<>>

\* C11: when retrieval yields no document (the store is empty, or no document
\* scores at or above the similarity threshold), process_query returns the
\* fixed no-information message with an empty source list and makes no call
\* of the LLM client's generate_response.
C11_NothingRetrieved ==
  (last.op = "process_query" /\ NothingRetrieved) =>
    /\ ~last.raised
    /\ last.response = NoRelevantInformation
    /\ last.sources = <<>>
    /\ LlmCalls = <<>>

\* C11 witness: a store with documents, none of which reaches the threshold,
\* and an LLM endpoint that would have answered.
C11_Witness ==
  /\ last.op = "process_query" /\ NothingRetrieved
  /\ documents # <<>>
  /\ rag.similarity_threshold.given
  /\ last.reply.kind = "ok"
  /\ last.response = NoRelevantInformation

\* C12: when the LLM client raises during process_query, process_query raises
\* too: it returns no (answer, sources) pair and puts no text in its place.
C12_LlmErrorPropagates ==
  (last.op = "process_query" /\ LlmCalls # <<>> /\ last.reply.kind # "ok") =>
    (last.raised /\ last.response = <<>> /\ last.sources = <<>>)

\* C12 witness: documents were retrieved, the LLM client was called and the
\* endpoint answered with an error status.
C12_Witness ==
  /\ last.op = "process_query"
  /\ SomethingRetrieved
  /\ Len(LlmCalls) = 1
  /\ last.reply.kind = "http_error"
  /\ last.raised

\* C13: when documents were retrieved and an answer came back, the source
\* list has one entry per retrieved document, in rank order (entry i carries
\* the id and the title or file name of the i-th retrieved document), and it
\* is the same list for every answer text the LLM client may give.
C13_SourcesAreRetrieved ==
  (last.op = "process_query" /\ SomethingRetrieved /\ ~last.raised) =>
    LET retrieved == RetrievedNow.results IN
      /\ Len(last.sources) = Len(retrieved)
      /\ \A i \in 1..Len(retrieved) :
           LET metadata == Get(retrieved[i], metadata_field, EmptyDict) IN
             /\ last.sources[i].chunk_id = retrieved[i].id
             /\ "title" \in DOMAIN metadata => last.sources[i].title = metadata.title
             /\ ("eo_number" \in DOMAIN last.sources[i]) = ("eo_number" \in DOMAIN metadata)
      /\ \A a \in AnswerPool :
           process_query(rag, documents, embeddings, last.query, last.chat_history,
                         last.model_ok, [kind |-> "ok", content |-> a]).sources
             = last.sources

\* C13 witness: two documents retrieved in an order that is not the store's,
\* and an answer that mentions the title of neither.
C13_Witness ==
  /\ last.op = "process_query" /\ ~last.raised
  /\ Len(last.sources) = 2
  /\ Len(documents) = 2
  /\ last.sources[1].chunk_id = documents[2].id
  /\ last.sources[2].chunk_id = documents[1].id
  /\ documents[1].id # documents[2].id
  /\ \A j \in 1..Len(last.response), i \in 1..2 : last.response[j] # last.sources[i].title

RECURSIVE SplitAt(_, _)
SplitAt(text, sep) ==
  IF \A j \in 1..Len(text) : text[j] # sep THEN <<text>>
  ELSE LET p == CHOOSE j \in 1..Len(text) :
                  text[j] = sep /\ \A i \in 1..(j - 1) : text[i] # sep
       IN <<SubSeq(text, 1, p - 1)>> \o SplitAt(SubSeq(text, p + 1, Len(text)), sep)

IsPrefix(a, b) == Len(a) <= Len(b) /\ SubSeq(b, 1, Len(a)) = a

\* C14: format_response_with_sources returns the answer as it is, without a
\* "Sources:" section, when the source list is empty; otherwise the answer,
\* then "Sources:", then one line per source in input order, line i numbered
\* i (from 1) and naming source i.
C14_SourcesSection ==
  last.op = "format_response_with_sources" =>
    IF last.sources = <<>>
      THEN last.text = last.response
      ELSE
        /\ IsPrefix(last.response \o <<"\n\nSources:\n">>, last.text)
        /\ LET lines == SplitAt(SubSeq(last.text, Len(last.response) + 2, Len(last.text)),
                                "\n")
           IN /\ Len(lines) = Len(last.sources)
              /\ \A i \in 1..Len(lines) :
                   /\ Len(lines[i]) >= 3
                   /\ lines[i][1] = ToString(i)
                   /\ lines[i][2] = ". "
                   /\ "eo_number" \in DOMAIN last.sources[i] =>
                        lines[i][4] = last.sources[i].eo_number
                   /\ ("eo_number" \notin DOMAIN last.sources[i]
                         /\ "title" \in DOMAIN last.sources[i]) =>
                        lines[i][3] = last.sources[i].title

\* C14 witness: two different sources under an answer.
C14_Witness ==
  /\ last.op = "format_response_with_sources"
  /\ Len(last.sources) = 2
  /\ last.sources[1] # last.sources[2]
  /\ "eo_number" \in DOMAIN last.sources[2]
  /\ last.text # last.response

\* The blocks of the latest format_context text.
Blocks == SplitAt(last.text, ContextDelimiter[1])
\* The header of a block: what stands between "[Document i]:\n" and the
\* empty line before the content.
Header(block) ==
  LET p == CHOOSE j \in 4..Len(block) :
             block[j] = "\n\n" /\ \A i \in 4..(j - 1) : block[i] # "\n\n"
  IN SubSeq(block, 4, p - 1)

\* C15: format_context of n documents gives n blocks, block i numbered i and
\* holding the content of document i, with one and the same delimiter line
\* between consecutive blocks (and the empty text for no documents).
C15_BlocksInOrder ==
  last.op = "format_context" =>
    IF last.docs = <<>> THEN last.text = <<>>
    ELSE /\ Len(Blocks) = Len(last.docs)
         /\ \A i \in 1..Len(Blocks) :
              /\ SubSeq(Blocks[i], 1, 3) = <<"[Document ", ToString(i), "]:\n">>
              /\ SubSeq(Blocks[i], Len(Blocks[i]) - 2, Len(Blocks[i]))
                   = <<"\n\n", last.docs[i].content, "\n">>

\* C15 witness: two documents of different content.
C15_Witness ==
  /\ last.op = "format_context"
  /\ Len(last.docs) = 2
  /\ last.docs[1].content # last.docs[2].content
  /\ Len(Blocks) = 2

\* The header the preference rule gives a metadata mapping.
PreferredHeader(metadata) ==
  LET source == Get(metadata, "source_filename", "Unknown source") IN
    IF "title" \in DOMAIN metadata
      THEN <<"Title: ", metadata.title, "\nSource: ", source>>
    ELSE IF "eo_number" \in DOMAIN metadata
      THEN <<"Executive Order: ", metadata.eo_number, "\nSource: ", source>>
    ELSE <<"Source: ", source>>

\* C16 as stated: every block, whatever the document's metadata (present,
\* empty or absent), carries the header of the preference rule: the title,
\* else the eo_number, else the source_filename, "Unknown source" without one.
C16_EveryBlockHasHeader ==
  (last.op = "format_context" /\ last.docs # <<>>) =>
    \A i \in 1..Len(last.docs) :
      Header(Blocks[i]) = PreferredHeader(Get(last.docs[i], metadata_field, EmptyDict))

\* C16 amended: the block of a document whose metadata is present and not
\* empty carries the header of the preference rule; the block of a document
\* with empty or absent metadata carries no header, only an empty line.
C16_HeaderWhenMetadata ==
  (last.op = "format_context" /\ last.docs # <<>>) =>
    \A i \in 1..Len(last.docs) :
      LET metadata == Get(last.docs[i], metadata_field, EmptyDict) IN
        Header(Blocks[i]) = IF DOMAIN metadata = {} THEN <<>> ELSE PreferredHeader(metadata)

\* C16 witness: a document with a title and an eo_number (the title wins)
\* followed by one without metadata.
C16_Witness ==
  /\ last.op = "format_context"
  /\ Len(last.docs) = 2
  /\ metadata_field \in DOMAIN last.docs[1]
  /\ {"title", "eo_number"} \subseteq DOMAIN last.docs[1].metadata
  /\ Header(Blocks[1])[1] = "Title: "
  /\ metadata_field \notin DOMAIN last.docs[2]
  /\ Header(Blocks[2]) = <<>>

\* ------------------------------------------------- claims on two threads
\* The two lists are of one length and entry i of embeddings is the vector
\* of document i.
Consistent ==
  /\ Len(documents) = Len(embeddings)
  /\ \A i \in 1..Len(documents) : embeddings[i] = NpArray(documents[i][embeddings_field])

\* The search is about to read one of the two lists of the store.
SearchReads ==
  \/ search_thread.pc \in {"check", "iterate", "build"}
  \/ search_thread.pc = "next" /\ search_thread.live

\* C18: a similarity_search that runs while another thread is in
\* add_documents or load never meets a torn store: whenever it reads the
\* store the two lists are of one length and describe the same documents,
\* it does not fail on an index, and every result carries the score of its
\* own document's embedding.
C18_NoTornRead ==
  /\ SearchReads => Consistent
  /\ search_thread.raised # "IndexError"
  /\ \A j \in 1..Len(search_thread.results) :
       LET result == search_thread.results[j] IN
         \E d \in ThreadDocs :
           /\ result = ResultDoc(JsonDecode(JsonEncode(d)), ScoreOf(result))
                \/ result = ResultDoc(d, ScoreOf(result))
           /\ ScoreOf(result) = CosineSimilarity(search_thread.query_embedding,
                                                 NpArray(d[embeddings_field]))

\* C18, the failure alone: the search ends in IndexError.
C18_SearchFails == search_thread.raised # "IndexError"

\* C18, the wrong answer alone: a result that carries another document's score.
C18_ResultsOfOneStore ==
  \A j \in 1..Len(search_thread.results) :
    LET result == search_thread.results[j] IN
      \E d \in ThreadDocs :
        /\ result = ResultDoc(JsonDecode(JsonEncode(d)), ScoreOf(result))
             \/ result = ResultDoc(d, ScoreOf(result))
        /\ ScoreOf(result) = CosineSimilarity(search_thread.query_embedding,
                                              NpArray(d[embeddings_field]))

\* --------------------------------------------------- claims on the adapter
AzureSearched == last.op = "azure_similarity_search"

\* The service with its index known to have, or known not to have, a vector
\* field.
WithIndex(fields) == [remote EXCEPT !.inspect = "fields", !.fields = fields]

\* C19: when get_index fails, similarity_search does not fail: it issues
\* one search, the keyword search, and returns that search's results, one
\* per item found, which is what it returns when the index is known to have
\* no vector field.
C19_InspectFailureFallsBack ==
  (AzureSearched /\ remote.inspect = "fails") =>
    /\ ~last.raised
    /\ trace = <<InspectCall, KeywordSearchCall(last.k)>>
    /\ (remote.search = "ok" /\ remote.items = "object") =>
         /\ Len(last.results) = Len(TopK(remote.matches, last.k))
         /\ \A i \in 1..Len(last.results) :
              /\ last.results[i].id = remote.matches[i].id
              /\ last.results[i].content = remote.matches[i].content
    /\ last.results = azure_similarity_search(WithIndex(PlainIndex), last.query_embedding,
                                              last.k, NoFilter, NoFilter).results

\* C19 witness: get_index fails on an index that does have the vector field;
\* the keyword search finds two documents and both are returned.
C19_Witness ==
  /\ AzureSearched
  /\ remote.inspect = "fails"
  /\ remote.fields = VectorIndex
  /\ Len(last.results) = 2
  /\ trace[2].search_text = "executive orders"

SearchResultShape == {"id", "content", "metadata", "similarity_score"}
MetadataKeys == {"source_filename", "title", "eo_number", "chunk_id", "page_number"}
HasShape(result) ==
  /\ DOMAIN result = SearchResultShape
  /\ DOMAIN result.metadata \subseteq MetadataKeys

RemoteSearched == \E i \in 1..Len(trace) : trace[i].callee = "search"

\* C21: when the remote search call raises during a query, AzureRAG.retrieve
\* and SimpleAzureRAG.retrieve raise to their caller: they do not return a
\* result sequence, which the caller could not tell from "no matching
\* documents".
C21_SearchFailurePropagates ==
  (last.op \in {"azure_retrieve", "simple_azure_retrieve"}
     /\ RemoteSearched /\ remote.search = "fails") => last.raised

\* ------------------------------------------- claims on the store, continued
\* Every stored embedding that the latest query is scored against has the
\* query's length, so that each of them has a cosine.
Scorable ==
  \A i \in 1..Len(embeddings) :
    (Norm2(last.query_embedding) > 0 /\ Norm2(embeddings[i]) > 0)
      => Len(embeddings[i]) = Len(last.query_embedding)

\* C22: the empty-result conditions of similarity_search are values, not
\* errors: on a store of 0 documents, and on a store none of whose documents
\* scores at or above the given threshold, the call raises nothing and returns
\* the empty list, for every query and k.
C22_EmptyIsNoError ==
  (last.op = "similarity_search" /\ Scorable
     /\ (embeddings = <<>> \/ (last.score_threshold.given /\ Qualifying = {})))
    => (~last.raised /\ last.results = <<>>)

\* C22 witness: a store of two scored documents, both below the threshold of
\* the call, which returned [].
C22_Witness ==
  /\ last.op = "similarity_search"
  /\ Len(embeddings) = 2
  /\ Len(SimilarityLoop(embeddings, last.query_embedding, 1, <<>>).similarities) = 2
  /\ last.score_threshold.given
  /\ Qualifying = {}
  /\ ~last.raised
  /\ last.results = <<>>

\* C23: every similarity_score that similarity_search returns is the cosine
\* of the query and the document's embedding, and lies in [-1, 1].
C23_ScoreInRange ==
  Returned =>
    \A j \in 1..Len(last.results) :
      /\ FloatGE(ScoreOf(last.results[j]), Float(-1, 1, 0))
      /\ FloatGE(Float(1, 1, 0), ScoreOf(last.results[j]))

\* The positions of the stored documents whose id is that of the latest lookup.
Matches ==
  {i \in 1..Len(documents) :
     id_field \in DOMAIN documents[i] /\ documents[i][id_field] = last.doc_id}

\* C24: get_document_by_id(id) returns the first document, in insertion
\* order, whose id is id (also when several share it), None when there is
\* none, and leaves the two lists of the store as they were.
C24_FirstById ==
  last.op = "get_document_by_id" =>
    /\ (Matches = {}) = ~last.document.given
    /\ \A i \in Matches :
         (\A j \in Matches : i <= j) => last.document.v = documents[i]
    /\ documents = last.pre_documents
    /\ embeddings = last.pre_embeddings

\* C24 witness: two different stored documents share the id looked up; the
\* one stored first is returned.
C24_Witness ==
  /\ last.op = "get_document_by_id"
  /\ Matches = {1, 2}
  /\ documents[1] # documents[2]
  /\ last.document = SomeDocument(documents[1])

\* The positions of the stored embeddings of norm zero.
ZeroNorm == {i \in 1..Len(embeddings) : Norm2(embeddings[i]) = 0}

\* C25: a stored document whose embedding has norm zero is in no result of
\* similarity_search, and a query of norm zero gets the empty result; neither
\* raises an error: a search raises only over a document that is scored.
C25_ZeroNormSkipped ==
  last.op = "similarity_search" =>
    /\ \A j \in 1..Len(last.results), i \in ZeroNorm :
         last.results[j] # ResultDoc(documents[i], ScoreOf(last.results[j]))
    /\ Norm2(last.query_embedding) = 0 => (~last.raised /\ last.results = <<>>)
    /\ (ZeroNorm # {} /\ Scorable) => ~last.raised

\* C25 witness: a store of a zero-norm document and another one, searched
\* with no threshold and k = 2: the other one alone is returned.
C25_Witness ==
  /\ Returned
  /\ Len(documents) = 2
  /\ Cardinality(ZeroNorm) = 1
  /\ Norm2(last.query_embedding) > 0
  /\ ~last.score_threshold.given
  /\ last.k = 2
  /\ Len(last.results) = 1
  /\ \E i \in 1..2 : i \notin ZeroNorm /\ last.results[1].content = documents[i].content

\* C25 witness, the query: a zero-norm query on a store of two documents.
C25_WitnessQuery ==
  /\ Returned
  /\ Len(documents) = 2
  /\ ZeroNorm = {}
  /\ Norm2(last.query_embedding) = 0
  /\ last.results = <<>>

\* The positions of the stored documents that the latest search scores and
\* keeps: of norm > 0 like the query, and at or above the threshold if one
\* was given.
Kept ==
  {i \in 1..Len(embeddings) :
     /\ Norm2(last.query_embedding) > 0
     /\ Norm2(embeddings[i]) > 0
     /\ last.score_threshold.given =>
          FloatGE(CosineSimilarity(last.query_embedding, embeddings[i]),
                  last.score_threshold.v)}

\* order lists Kept by score, the higher first, and documents of one score
\* by position in the store, the earlier first.
StableRanking(order) ==
  /\ Len(order) = Cardinality(Kept)
  /\ \A j \in 1..Len(order) : order[j] \in Kept
  /\ \A j \in 1..(Len(order) - 1) :
       LET a == CosineSimilarity(last.query_embedding, embeddings[order[j]])
           b == CosineSimilarity(last.query_embedding, embeddings[order[j + 1]])
       IN FloatGT(a, b) \/ (FloatEQ(a, b) /\ order[j] < order[j + 1])

\* C26: ties are broken by insertion order: of two documents of one score the
\* one stored earlier comes first in the result, and it is the one kept when
\* the cut to k falls between them.
C26_StableTies ==
  Returned =>
    \E order \in SeqsUpTo(1..Len(embeddings), Len(embeddings)) :
      /\ StableRanking(order)
      /\ Len(last.results) = (IF last.k < Len(order) THEN last.k ELSE Len(order))
      /\ \A j \in 1..Len(last.results) :
           last.results[j] =
             ResultDoc(documents[order[j]],
                       CosineSimilarity(last.query_embedding, embeddings[order[j]]))

\* C26 witness: two different documents of one score and k = 1: the one stored
\* first is the result.
C26_Witness ==
  /\ Returned
  /\ Len(documents) = 2
  /\ Kept = {1, 2}
  /\ FloatEQ(CosineSimilarity(last.query_embedding, embeddings[1]),
             CosineSimilarity(last.query_embedding, embeddings[2]))
  /\ documents[1].content # documents[2].content
  /\ last.k = 1
  /\ Len(last.results) = 1
  /\ last.results[1].content = documents[1].content

\* C27: similarity_search is read-only: it leaves the two lists as they are,
\* every stored document still carries its embedding and has gained no
\* similarity_score, and a save after any number of searches writes the
\* documents that the save before them wrote.
C27_SearchReadOnly ==
  /\ [][last'.op = "similarity_search" =>
          /\ documents' = documents
          /\ embeddings' = embeddings
          /\ \A i \in 1..Len(documents') :
               /\ embeddings_field \in DOMAIN documents'[i]
               /\ score_field \notin DOMAIN documents'[i]]_vars
  /\ [][(last'.op = "save" /\ disk.kind # "missing") => disk' = disk]_vars

\* C27 witness: a store of two documents was saved and then searched, both
\* documents are in the result, and a save now would write the file again as
\* it is.
C27_Witness ==
  /\ last.op = "similarity_search"
  /\ Len(documents) = 2
  /\ Len(last.results) = 2
  /\ disk.kind = "object"
  /\ save(documents, persist_directory, disk).disk = disk

\* C28: after any sequence of add_documents, load (whether it succeeds or
\* fails), save and similarity_search, the two lists of the store are
\* parallel: they have one length, and embeddings[i] is the vector of the
\* embedding that documents[i] carries.
C28_ParallelLists ==
  /\ Len(embeddings) = Len(documents)
  /\ \A i \in 1..Len(documents) :
       /\ embeddings_field \in DOMAIN documents[i]
       /\ embeddings[i] = documents[i][embeddings_field].v

\* C28 witness: a load that failed on the second entry of the file, on a store
\* that held two documents: it holds the first entry now, with its vector.
C28_Witness ==
  /\ last.op = "load"
  /\ ~last.ok
  /\ Len(last.pre_documents) = 2
  /\ Len(documents) = 1
  /\ documents[1] \notin {last.pre_documents[1], last.pre_documents[2]}
  /\ embeddings = <<documents[1][embeddings_field].v>>

\* ------------------------------------------------ claims on usage limits
\* C29: /api/chat enforces the usage limits of an authenticated user without
\* the premium plan: every request of the user that is answered is recorded
\* against the user, and once the user has made at least the per-user prompt
\* limit of requests within the reset period, a further request is refused
\* with status 429 and its message is not processed.
C29_UserLimitEnforced ==
  (last.op = "chat" /\ last.client = UserFree.id) =>
    /\ last.status = 200 =>
         /\ last.client \in DOMAIN usage.user_usage
         /\ usage.user_usage[last.client].prompt_count >= 1
    /\ (last.made >= user_prompt_limit /\ last.message # <<>>) =>
         (last.status = 429 /\ ~last.processed)

\* C29, the refusal alone.
C29_Refused ==
  (last.op = "chat" /\ last.client = UserFree.id
     /\ last.made >= user_prompt_limit /\ last.message # <<>>)
    => (last.status = 429 /\ ~last.processed)

\* C30: check_usage_limits(), called by the Streamlit app with no limiter
\* before each query, counts the checks of a client IP from call to call: for
\* a client IP outside the unlimited list, the check that brings the number
\* made within one reset period above prompt_limit returns (False, reason),
\* and the query is not processed.
C30_IpLimitEnforced ==
  (last.op = "chat_input" /\ last.client \notin default_admin_ips
     /\ last.made > prompt_limit)
    => (~last.allowed /\ ~last.processed)

====
